---- MODULE Spec2Model ----
(***************************************************************************)
(* The rotated surface code environment of surface_rl_decoder              *)
(* (src/src/surface_rl_decoder/surface_code.py): the qubit grid, the        *)
(* error channels, the syndrome derivation, reset's rejection sampling      *)
(* and step.  Operator labels: Identity = 0, X = 1, Y = 2, Z = 3.           *)
(* Probabilities are held in percent; a uniform draw is one of Draws.      *)
(***************************************************************************)
EXTENDS Integers, Sequences, FiniteSets, TLC

\* ----------------------------------------------------------------- bounds
\* Total number of sampled error occurrences plus applied actions in one
\* behaviour.
MaxOps == 2
\* Total number of set input bits plus measurement-error draws below p_msmt
\* in one call of generate_measurement_error.
MaxBits == 2

\* ---------------------------------------------------------- configuration
\* env_config "size": the code distance d.
system_size == 3
syndrome_size == system_size + 1

\* env_config "stack_depth": a single slice and a stack.
StackDepths == {1, 2}
\* Probabilities in percent (0.0 and 0.1), and the values a uniform draw
\* takes: one below 0.1 and one above it.
Probabilities == {0, 10}
Draws == {5, 50}

Operators == 1..3
Channels == {"x", "dp", "iidxz"}
\* a channel name generate_qubit_error does not know
Unsupported == "other"

Rows == 0..(system_size - 1)
Sites == Rows \X Rows
SynRows == 0..(syndrome_size - 1)
SynSites == SynRows \X SynRows
Layers(h) == 0..(h - 1)

VARIABLES
    stack_depth,      \* self.stack_depth
    p_error,          \* self.p_error (percent)
    p_msmt,           \* self.p_msmt (percent)
    qubits,           \* self.qubits[layer][row][col]
    state,            \* self.state[layer][row][col]
    next_state,       \* self.next_state
    ground_state,     \* self.ground_state
    pc,               \* "idle", or "reset" inside reset's while loop
    error_channel,    \* reset's error_channel argument while it runs
    reset_p_error,    \* reset's p_error argument while it runs (percent)
    channel_draws,    \* the draws of a call of generate_qubit_error
    new_errors,       \* the errors generate_qubit_error returned, per layer
    last_call,        \* "init", "reset" or "step"
    raised,           \* the exception that ended the last call, or "none"
    history,          \* the steps since the last reset or construction
    ops,              \* sampled errors plus applied actions so far
    true_syndrome,    \* generate_measurement_error's argument
    uniform_msmt,     \* its uniform_random_vector
    faulty_syndrome,  \* its return value
    msmt_called       \* whether it has returned

\* The actor process of src/src/distributed/actor.py and the processes at
\* the other ends of its two queues.
VARIABLES
    num_environments,          \* args["num_environments"]
    size_local_memory_buffer,  \* args["size_local_memory_buffer"] + 1
    shared,                    \* another process gets from learner_actor_queue
    a_pc,                      \* the actor's position in its loop
    buffer_idx,                \* buffer_idx
    steps_per_episode,         \* steps_per_episode[i]
    terminals,                 \* terminals[i] of the last environments.step
    states,                    \* states[i]
    next_states,               \* next_states[i]
    learner_actor_queue,       \* the weight queue, oldest message first
    learner_qsize,             \* learner_qsize of the running sync
    gets_left,                 \* gets the running sync has yet to issue
    model_params,              \* the parameter vector of the local model
    actor_io_queue,            \* the transition queue, oldest batch first
    taken,                     \* the messages the last sync took, in order
    newer_pending,             \* a message was pending when the last sync ended
    iterations,                \* loop iterations since the last publish
    last_publish,              \* size and iteration count of the last publish
    puts,                      \* messages the learner has put so far
    transitions,               \* transitions: the array the last iteration built
    local_buffer_transitions,  \* local_buffer_transitions[i][slot]
    local_buffer_qvalues,      \* local_buffer_qvalues[i][slot]; actions and
                               \* rewards are written and read alongside it
    published                  \* to_send of the last publish

\* One call of data_to_batch of src/src/distributed/learner_util.py.
VARIABLES
    data,          \* its argument data: <<batch, memory_weights, indices>>
    batch_size,    \* its argument batch_size
    rl_type,       \* its argument rl_type
    batch_result   \* what the call raised or returned

\* The annealed schedules of the actor loop of src/src/distributed/actor.py.
VARIABLES
    clock,              \* what time() returns
    performance_start,  \* performance_start
    schedule_args,      \* the args the schedules are computed from
    schedule,           \* delta_t and the values of the last iteration
    schedule_log        \* the schedule of every iteration so far

\* The learning steps of src/src/distributed/learner_util.py; their
\* input_data, batch_size and the result of their data_to_batch call are
\* data, batch_size and batch_result.
VARIABLES
    policy_network,  \* the online network: parameters, gradient, mode
    target_network,  \* the target network: parameters, gradient, mode
    learner_args,    \* discount_factor, reevaluate_all, the optimizer's networks
    step_result,     \* what the last learning step computed and returned
    steps            \* learning steps so far

actor_vars == <<num_environments, size_local_memory_buffer, shared, a_pc,
                buffer_idx, steps_per_episode, terminals, states, next_states,
                learner_actor_queue, learner_qsize, gets_left, model_params,
                actor_io_queue, taken, newer_pending, iterations, last_publish,
                puts, transitions, local_buffer_transitions,
                local_buffer_qvalues, published>>
batch_vars == <<data, batch_size, rl_type, batch_result>>
schedule_vars == <<clock, performance_start, schedule_args, schedule,
                   schedule_log>>
learner_vars == <<policy_network, target_network, learner_args, step_result,
                  steps>>
distributed_vars == <<actor_vars, batch_vars, schedule_vars, learner_vars>>

vars == <<stack_depth, p_error, p_msmt, qubits, state, next_state,
          ground_state, pc, error_channel, reset_p_error, channel_draws,
          new_errors,
          last_call, raised, history, ops, true_syndrome, uniform_msmt,
          faulty_syndrome, msmt_called, distributed_vars>>

engine_vars == <<qubits, state, next_state, ground_state, pc, error_channel,
                 reset_p_error, channel_draws, new_errors, last_call, raised,
                 history, ops>>
msmt_vars == <<true_syndrome, uniform_msmt, faulty_syndrome, msmt_called>>
config_vars == <<stack_depth, p_error, p_msmt>>

\* ------------------------------------------------------------------ arrays
\* np.zeros((h, n, n))
zeros(h, n) == [l \in Layers(h) |-> [i \in 0..(n - 1) |-> [j \in 0..(n - 1) |-> 0]]]
zeros2(n) == [i \in 0..(n - 1) |-> [j \in 0..(n - 1) |-> 0]]

\* ndarray.sum() over a (n, n) slice and over a (h, n, n) stack
RECURSIVE sum_row(_, _)
sum_row(r, n) == IF n = 0 THEN 0 ELSE r[n - 1] + sum_row(r, n - 1)
RECURSIVE sum_slice(_, _, _)
sum_slice(a, rows, n) == IF rows = 0 THEN 0 ELSE sum_row(a[rows - 1], n) + sum_slice(a, rows - 1, n)
RECURSIVE sum_stack(_, _, _)
sum_stack(a, h, n) == IF h = 0 THEN 0 ELSE sum_slice(a[h - 1], n, n) + sum_stack(a, h - 1, n)

\* ------------------------------------------------------------- rule table
\* Identity = 0, pauli_x = 1, pauli_y = 2, pauli_z = 3
\* rule_table with the square of Y mistyped
rule_table_y_squared ==
    LET t == << <<0, 1, 2, 3>>, <<1, 0, 3, 2>>, <<2, 3, 1, 0>>, <<3, 2, 1, 0>> >>
    IN  [a \in 0..3 |-> [b \in 0..3 |-> t[a + 1][b + 1]]]

rule_table ==
    LET t == << <<0, 1, 2, 3>>, <<1, 0, 3, 2>>, <<2, 3, 0, 1>>, <<3, 2, 1, 0>> >>
    IN  [a \in 0..3 |-> [b \in 0..3 |-> t[a + 1][b + 1]]]

\* ------------------------------------------------------------------ masks
\* syndrome_masks.vertex_mask / plaquette_mask for code distance d: the two
\* interleaved sublattices of the (d+1) x (d+1) syndrome lattice.  Vertex
\* sites sit on the odd diagonal, in the interior and on the top and bottom
\* boundary; plaquette sites on the even diagonal, in the interior and on
\* the left and right boundary.
vertex_mask ==
    [i \in SynRows |-> [j \in SynRows |->
        IF (i + j) % 2 = 1 /\ j >= 1 /\ j <= system_size - 1 THEN 1 ELSE 0]]
plaquette_mask ==
    [i \in SynRows |-> [j \in SynRows |->
        IF (i + j) % 2 = 0 /\ i >= 1 /\ i <= system_size - 1 THEN 1 ELSE 0]]

\* --------------------------------------------------------------- syndrome
\* Each array of the derivation is given by its entry at [l][i][j].

\* np.pad with the zero row and column appended on the high side,
\* ((0, 0), (0, 1), (0, 1)), instead
padded_high(q, l, i, j) ==
    IF i = system_size \/ j = system_size THEN 0 ELSE q[l][i][j]

\* np.pad(qubits, ((0, 0), (1, 0), (1, 0)), "constant", constant_values=0)
padded(q, l, i, j) == IF i = 0 \/ j = 0 THEN 0 ELSE q[l][i - 1][j - 1]

\* x, y, z = (qubits == v).astype(np.uint8) for v = 1, 2, 3
plane(q, v, l, i, j) == IF padded(q, l, i, j) = v THEN 1 ELSE 0

\* np.roll(a, 1, axis=2) instead: the columns move to the right
shifted_right(q, v, l, i, j) ==
    plane(q, v, l, i, (j + syndrome_size - 1) % syndrome_size)

\* np.roll(a, -1, axis=2): every column moves one to the left and column 0
\* re-enters as the last column
shifted_left(q, v, l, i, j) == plane(q, v, l, i, (j + 1) % syndrome_size)

\* np.roll(a, -1, axis=1): every row moves one up and row 0 re-enters as
\* the last row
shifted_up(q, v, l, i, j) == plane(q, v, l, (i + 1) % syndrome_size, j)

\* np.roll(a_shifted_up, -1, axis=2)
shifted_ul(q, v, l, i, j) == shifted_up(q, v, l, i, (j + 1) % syndrome_size)

\* a + a_shifted_up + a_shifted_left + a_shifted_ul
neighbours(q, v, l, i, j) ==
    plane(q, v, l, i, j) + shifted_up(q, v, l, i, j)
    + shifted_left(q, v, l, i, j) + shifted_ul(q, v, l, i, j)

\* self.vertex_mask, self.plaquette_mask = np.tile(mask, (stack_depth, 1, 1))
self_vertex_mask(l, i, j) == vertex_mask[i][j]
self_plaquette_mask(l, i, j) == plaquette_mask[i][j]

\* (a + a_shifted_up + a_shifted_left + a_shifted_ul) * mask at one site;
\* the sum is not evaluated where the mask is 0.
masked_sum(q, v, mask, l, i, j) ==
    IF mask = 0 THEN 0 ELSE neighbours(q, v, l, i, j) * mask

\* The sum without the two terms of the Y plane
contributions_without_y(q, l, i, j) ==
    (masked_sum(q, 1, self_vertex_mask(l, i, j), l, i, j)
     + masked_sum(q, 3, self_plaquette_mask(l, i, j), l, i, j)) % 256

\* The uint8 sum of the four masked terms at one site, before the parity.
contributions(q, l, i, j) ==
    (masked_sum(q, 1, self_vertex_mask(l, i, j), l, i, j)
     + masked_sum(q, 2, self_vertex_mask(l, i, j), l, i, j)
     + masked_sum(q, 3, self_plaquette_mask(l, i, j), l, i, j)
     + masked_sum(q, 2, self_plaquette_mask(l, i, j), l, i, j)) % 256

create_syndrome_output_stack(qubits_in) ==
    [l \in DOMAIN qubits_in |-> [i \in SynRows |-> [j \in SynRows |->
        contributions(qubits_in, l, i, j) % 2]]]

\* create_syndrome_output is the one-slice derivation.  Its only caller,
\* step, hands it the whole (h, d, d) stack: for h /= 1 the assertion
\* qubits.shape[0] == 1 fails, and for h = 1 np.pad is given two pad pairs
\* for a three-dimensional array and raises ValueError.  Either way it
\* returns nothing.
create_syndrome_output(qubits_in) ==
    IF Cardinality(DOMAIN qubits_in) /= 1
    THEN [raised |-> "AssertionError"]
    ELSE [raised |-> "ValueError"]

\* ------------------------------------------------------------ random draws
\* The random draws of one call of generate_qubit_error_stack are held as
\* [low, low2, chan]: low is the set of (layer, row, col) at which the
\* first uniform vector of that layer's generate_qubit_error is below 0.1,
\* low2 the same for the second uniform vector (independent-XZ channel
\* only), chan the operator np.random.randint draws at the positions of low
\* (depolarizing channel only).

\* The i-th position of an (h, d, d) array in row-major order.
position(i) ==
    <<i \div (system_size * system_size),
      (i % (system_size * system_size)) \div system_size,
      i % system_size>>

\* The sets of exactly k of the first n positions: the images of the
\* increasing index sequences of length k.
Positions(n, k) ==
    {{position(f[i]) : i \in 1..k} :
        f \in {g \in [1..k -> 0..(n - 1)] : \A i \in 1..(k - 1) : g[i] < g[i + 1]}}

\* np.random.uniform(0.0, 1.0, shape) for layer l: the draws at the
\* positions of low are below 0.1, the others above it.
uniform_vector(low, l) ==
    [r \in Rows |-> [c \in Rows |-> IF <<l, r, c>> \in low THEN 5 ELSE 50]]

\* np.random.randint(1, 4, shape) for layer l: the drawn operator where the
\* uniform draw is low; the draws elsewhere meet a zero mask and are held
\* at 1.
randint(chan, l) ==
    [r \in Rows |-> [c \in Rows |->
        IF <<l, r, c>> \in DOMAIN chan THEN chan[<<l, r, c>>] ELSE 1]]

\* ---------------------------------------------------------- error channels
\* (uniform_random_vector < self.p_error).astype(np.uint8)
error_mask(u, p) == [r \in Rows |-> [c \in Rows |-> IF u[r][c] < p THEN 1 ELSE 0]]

generate_qubit_X_error(dr, l) == error_mask(uniform_vector(dr.low, l), p_error)

\* generate_qubit_IIDXZ_error without the np.where that writes 2 where the
\* X and the Z error add up
generate_qubit_IIDXZ_error_sum(dr, l) ==
    LET error_mask_x == error_mask(uniform_vector(dr.low, l), p_error)
        error_mask_z == error_mask(uniform_vector(dr.low2, l), p_error)
    IN  [r \in Rows |-> [c \in Rows |->
            1 * error_mask_x[r][c] + (1 * 3) * error_mask_z[r][c]]]

generate_qubit_IIDXZ_error(dr, l) ==
    LET error_mask_x == error_mask(uniform_vector(dr.low, l), p_error)
        error_mask_z == error_mask(uniform_vector(dr.low2, l), p_error)
        x_err == [r \in Rows |-> [c \in Rows |-> 1 * error_mask_x[r][c]]]
        z_err == [r \in Rows |-> [c \in Rows |-> (1 * 3) * error_mask_z[r][c]]]
        err == [r \in Rows |-> [c \in Rows |-> x_err[r][c] + z_err[r][c]]]
    IN  [r \in Rows |-> [c \in Rows |-> IF err[r][c] > 3 THEN 2 ELSE err[r][c]]]

generate_qubit_DP_error(dr, l) ==
    LET mask == error_mask(uniform_vector(dr.low, l), p_error)
        channel_draw == randint(dr.chan, l)
    IN  [r \in Rows |-> [c \in Rows |-> mask[r][c] * channel_draw[r][c]]]

generate_qubit_error(channel, dr, l) ==
    CASE channel = "x" -> generate_qubit_X_error(dr, l)
      [] channel = "dp" -> generate_qubit_DP_error(dr, l)
      [] channel = "iidxz" -> generate_qubit_IIDXZ_error(dr, l)

\* The two nested loops over np.where(base_error != 0): row runs over the
\* row index of every nonzero entry and, for each, col over the column
\* index of every nonzero entry, so site (row, col) is visited once for
\* every pair (nonzero entry in that row, nonzero entry in that column).
visits(base_error, row, col) ==
    Cardinality({c \in Rows : base_error[row][c] /= 0})
    * Cardinality({r \in Rows : base_error[r][col] /= 0})

\* new_error[row, col] = rule_table[old_operator, new_error[row, col]],
\* once per visit
RECURSIVE carry_over(_, _, _)
carry_over(old_operator, new_operator, k) ==
    IF k = 0 THEN new_operator
    ELSE carry_over(old_operator, rule_table[old_operator][new_operator], k - 1)

\* One pass of the loop over h: the layer built on base_error
next_layer(base_error, new_error) ==
    [r \in Rows |-> [c \in Rows |->
        carry_over(base_error[r][c], new_error[r][c], visits(base_error, r, c))]]

\* error_stack[0 .. h], given the errors generate_qubit_error returned
RECURSIVE stack_up_to(_, _)
stack_up_to(fresh, h) ==
    IF h = 0 THEN <<fresh[0]>>
    ELSE LET below == stack_up_to(fresh, h - 1)
         IN  Append(below, next_layer(below[h], fresh[h]))

generate_qubit_error_stack(fresh) ==
    LET built == stack_up_to(fresh, Cardinality(DOMAIN fresh) - 1)
    IN  [h \in DOMAIN fresh |-> built[h + 1]]

\* The number of error occurrences the draws produce under self.p_error.
occurrences(dr) ==
    IF 5 < p_error THEN Cardinality(dr.low) + Cardinality(dr.low2) ELSE 0

\* ------------------------------------------------------- measurement noise
\* generate_measurement_error without the multiplication by the masks
generate_measurement_error_unmasked(true_in, u) ==
    [l \in DOMAIN true_in |-> [i \in SynRows |-> [j \in SynRows |->
        IF u[l][i][j] < p_msmt THEN 1 - true_in[l][i][j] ELSE true_in[l][i][j]]]]

\* error_mask = (uniform_random_vector < self.p_msmt) * (plaquette_mask +
\* vertex_mask); np.where(error_mask > 0, 1 - true_syndrome, true_syndrome)
generate_measurement_error(true_in, u) ==
    [l \in DOMAIN true_in |-> [i \in SynRows |-> [j \in SynRows |->
        LET drawn == IF u[l][i][j] < p_msmt THEN 1 ELSE 0
            masked == drawn * (plaquette_mask[i][j] + vertex_mask[i][j])
        IN  IF masked > 0 THEN 1 - true_in[l][i][j] ELSE true_in[l][i][j]]]]

\* ------------------------------------------------------------------- step
\* step composing the action's operator in the first layer only
step_qubits_first_layer(q, row, col, add_operator) ==
    [l \in DOMAIN q |->
        IF l = 0
        THEN [q[l] EXCEPT ![row][col] = rule_table[q[l][row][col]][add_operator]]
        ELSE q[l]]

\* step storing the action's operator instead of composing it
step_qubits_overwrite(q, row, col, add_operator) ==
    [l \in DOMAIN q |-> [q[l] EXCEPT ![row][col] = add_operator]]

\* self.qubits[:, row, col] = [rule_table[old_op, add_operator] ...]
step_qubits(q, row, col, add_operator) ==
    [l \in DOMAIN q |->
        [q[l] EXCEPT ![row][col] = rule_table[q[l][row][col]][add_operator]]]

get_reward == "None"
is_terminal(s) == "None"

\* reset's loop entered once and never re-checked
loop_once(q) == FALSE

\* while self.qubits.sum() == 0
loop_again(q) == sum_stack(q, Cardinality(DOMAIN q), system_size) = 0

\* ------------------------------------------------------------ construction
\* The value of reset_p_error while no reset is running.
NoArgument == 0 - 1
\* The value of channel_draws before any recorded call.
NoDraws == [low |-> {}, low2 |-> {}, chan |-> << >>]

\* SurfaceCode.__init__ for the configuration (h, p_error, p_msmt)
Constructed ==
    /\ qubits = zeros(stack_depth, system_size)
    /\ state = zeros(stack_depth, syndrome_size)
    /\ next_state = zeros(stack_depth, syndrome_size)
    /\ ground_state = TRUE
    /\ pc = "idle"
    /\ error_channel = "dp"
    /\ reset_p_error = NoArgument
    /\ channel_draws = NoDraws
    /\ new_errors = zeros(stack_depth, system_size)
    /\ last_call = "init"
    /\ raised = "none"
    /\ history = << >>
    /\ ops = 0

\* No learner holds networks.
NoLearner ==
    /\ policy_network = << >>
    /\ target_network = << >>
    /\ learner_args = << >>
    /\ step_result = << >>
    /\ steps = 0

\* The schedule record before the first iteration.
NoValues ==
    [computed |-> FALSE, delta_t |-> 0, annealed_epsilon |-> 0,
     current_p_error |-> 0, current_p_msmt |-> 0,
     current_discount_factor |-> 0, annealing_intermediate_reward |-> 0,
     selection_epsilon |-> 0]

\* No actor computes schedules.
NoSchedule ==
    /\ clock = 0
    /\ performance_start = 0
    /\ schedule_args = << >>
    /\ schedule = NoValues
    /\ schedule_log = {}

\* No actor process has been started and data_to_batch has not been called.
NoActor ==
    /\ num_environments = 0
    /\ size_local_memory_buffer = 0
    /\ shared = FALSE
    /\ a_pc = "none"
    /\ buffer_idx = 0
    /\ steps_per_episode = << >>
    /\ terminals = << >>
    /\ states = << >>
    /\ next_states = << >>
    /\ learner_actor_queue = << >>
    /\ learner_qsize = 0
    /\ gets_left = 0
    /\ model_params = << >>
    /\ actor_io_queue = << >>
    /\ taken = << >>
    /\ newer_pending = FALSE
    /\ iterations = 0
    /\ last_publish = << >>
    /\ puts = 0
    /\ transitions = << >>
    /\ local_buffer_transitions = << >>
    /\ local_buffer_qvalues = << >>
    /\ published = << >>

NoBatch ==
    /\ data = << >>
    /\ batch_size = 0
    /\ rl_type = "q"
    /\ batch_result = [called |-> FALSE, raised |-> "none", size |-> 0, weights |-> 0]

Init ==
    /\ stack_depth \in StackDepths
    /\ p_error \in Probabilities
    /\ p_msmt = 10
    /\ Constructed
    /\ NoActor
    /\ NoBatch
    /\ NoSchedule
    /\ NoLearner
    /\ true_syndrome = zeros(stack_depth, syndrome_size)
    /\ uniform_msmt = [l \in Layers(stack_depth) |-> [i \in SynRows |-> [j \in SynRows |-> 50]]]
    /\ faulty_syndrome = zeros(stack_depth, syndrome_size)
    /\ msmt_called = FALSE

\* ------------------------------------------------------------------ reset
\* reset(p_error, p_msmt, error_channel) up to the head of its while loop.
\* Neither argument p_error nor p_msmt is assigned to self or read; the
\* model keeps p_error as reset_p_error for the time of the call.  The
\* grid has just been zeroed, so the loop is entered.
ResetBegin(pe, pm, channel) ==
    /\ pc = "idle"
    /\ (channel = Unsupported \/ p_error = 0 \/ ops < MaxOps)
    /\ ground_state' = TRUE
    /\ qubits' = zeros(stack_depth, system_size)
    /\ state' = zeros(stack_depth, syndrome_size)
    /\ next_state' = zeros(stack_depth, syndrome_size)
    /\ pc' = "reset"
    /\ error_channel' = channel
    /\ reset_p_error' = pe
    /\ new_errors' = zeros(stack_depth, system_size)
    /\ last_call' = "reset"
    /\ raised' = "none"
    /\ history' = << >>
    /\ UNCHANGED <<ops, channel_draws, config_vars, msmt_vars,
                   distributed_vars>>

\* One pass of the while loop with the errors fresh sampled for the
\* layers, count of them in all: the stack is built and its syndrome
\* derived; reset returns when the stack holds an error and loops when it
\* holds none.
ResetPassWith(fresh, stack, syndrome, count) ==
    /\ pc = "reset"
    /\ error_channel \in Channels
    /\ new_errors' = fresh
    /\ qubits' = stack
    /\ state' = syndrome
    /\ IF loop_again(stack)
       THEN /\ pc' = "reset"
            /\ UNCHANGED <<error_channel, reset_p_error>>
       ELSE /\ pc' = "idle"
            /\ error_channel' = "dp"
            /\ reset_p_error' = NoArgument
    /\ ops' = ops + count
    /\ UNCHANGED <<next_state, ground_state, last_call, raised, history,
                   channel_draws, config_vars, msmt_vars, distributed_vars>>

ResetPass(fresh, count) ==
    LET stack == generate_qubit_error_stack(fresh)
    IN  ResetPassWith(fresh, stack, create_syndrome_output_stack(stack), count)

\* One pass of the while loop under the draws of draws.
ResetIterate(draws) ==
    ResetPass([h \in Layers(stack_depth) |->
                  generate_qubit_error(error_channel, draws, h)],
              occurrences(draws))

\* The sets of k positions of an (h, d, d) array, for every stack depth h
\* and every k up to MaxOps.
PositionSets ==
    [h \in StackDepths |-> [k \in 0..MaxOps |->
        Positions(h * system_size * system_size, k)]]

\* The draws of one pass, with at most MaxOps - ops draws below 0.1.  No
\* draw is below a p_error of 0: the vector without low draws stands for
\* every vector there.
ResetSample ==
    \E k \in 0..(IF p_error = 0 THEN 0 ELSE MaxOps - ops) :
        \E k2 \in 0..(IF error_channel = "iidxz" THEN k ELSE 0) :
            LET lows == PositionSets[stack_depth][k - k2]
                lows2 == PositionSets[stack_depth][k2]
            IN  \E low \in lows, low2 \in lows2 :
                    \E chan \in (IF error_channel = "dp" THEN [low -> Operators]
                                 ELSE {[s \in low |-> 1]}) :
                        ResetIterate([low |-> low, low2 |-> low2, chan |-> chan])

\* generate_qubit_error raises for a channel it does not support: reset
\* ends in its first pass with the zeroed grid.
ResetRaise ==
    /\ pc = "reset"
    /\ error_channel \notin Channels
    /\ pc' = "idle"
    /\ raised' = "Exception"
    /\ error_channel' = "dp"
    /\ reset_p_error' = NoArgument
    /\ UNCHANGED <<qubits, state, next_state, ground_state, new_errors,
                   last_call, history, ops, channel_draws, config_vars,
                   msmt_vars, distributed_vars>>

Reset ==
    \E pe \in Probabilities, channel \in Channels \cup {Unsupported} :
        ResetBegin(pe, p_msmt, channel)

\* ------------------------------------------------------------------- step
\* step(action) with action = (_, row, col, add_operator).  The grid is
\* updated in every layer; create_syndrome_output then raises, so that
\* next_state and state keep their values and nothing is returned.
Step(row, col, add_operator) ==
    /\ pc = "idle"
    /\ ops < MaxOps
    /\ LET new_qubits == step_qubits(qubits, row, col, add_operator)
           derived == create_syndrome_output(new_qubits)
       IN  /\ qubits' = new_qubits
           /\ raised' = derived.raised
    /\ last_call' = "step"
    /\ history' = Append(history, [action |-> [row |-> row, col |-> col,
                                                  add_operator |-> add_operator],
                                   qubits |-> qubits, state |-> state])
    /\ ops' = ops + 1
    /\ UNCHANGED <<state, next_state, ground_state, pc, error_channel,
                   reset_p_error, channel_draws, new_errors, config_vars,
                   msmt_vars, distributed_vars>>

StepAny ==
    \E row \in Rows, col \in Rows, add_operator \in Operators :
        Step(row, col, add_operator)

Next == Reset \/ ResetSample \/ ResetRaise \/ StepAny

Spec == Init /\ [][Next]_vars

\* The reset calls alone.
ResetNext == Reset \/ ResetSample \/ ResetRaise

SpecReset == Init /\ [][ResetNext]_vars

\* The pass in which the first draw alone is below p_error and selects X,
\* for every stack depth: the errors drawn, the stack built from them and
\* its syndrome.
FirstErrors(h) ==
    [l \in Layers(h) |-> [row \in Rows |-> [col \in Rows |->
        IF l = 0 /\ row = 0 /\ col = 0 THEN 1 ELSE 0]]]

FirstPass ==
    [h \in StackDepths |->
        LET stack == generate_qubit_error_stack(FirstErrors(h))
        IN  [new_errors |-> FirstErrors(h), qubits |-> stack,
             state |-> create_syndrome_output_stack(stack)]]

\* One outcome of a pass that has positive probability under a positive
\* p_error: the first draw alone is below p_error and selects X, in every
\* channel an X on the first qubit of the first layer.
ResetSampleFirst ==
    /\ 5 < p_error
    /\ ops < MaxOps
    /\ ResetPassWith(FirstPass[stack_depth].new_errors, FirstPass[stack_depth].qubits,
                     FirstPass[stack_depth].state, 1)

\* Fair sampling: an outcome that has positive probability at every pass
\* of the loop is eventually drawn.
SpecResetFair ==
    Init /\ [][ResetNext]_vars /\ WF_vars(ResetSampleFirst)

\* --------------------------------------------------- one call of a channel
\* The draws of one call of generate_qubit_error: at most MaxOps draws
\* below 0.1 in the two uniform vectors together.
ChannelDraws(channel) ==
    UNION {UNION {UNION {
        {[low |-> low, low2 |-> low2, chan |-> chan] :
            chan \in (IF channel = "dp" THEN [low -> Operators]
                      ELSE {[site \in low |-> 1]})} :
        low \in Positions(system_size * system_size, k - k2),
        low2 \in Positions(system_size * system_size, k2)} :
        k2 \in 0..(IF channel = "iidxz" THEN k ELSE 0)} :
        k \in 0..MaxOps}

\* generate_qubit_error(error_channel) on a constructed environment, for
\* layer 0, under the draws of draws.
QubitError(channel, draws) ==
    /\ last_call = "init"
    /\ error_channel' = channel
    /\ channel_draws' = draws
    /\ new_errors' = [new_errors EXCEPT ![0] = generate_qubit_error(channel, draws, 0)]
    /\ last_call' = "generate_qubit_error"
    /\ UNCHANGED <<qubits, state, next_state, ground_state, pc, reset_p_error,
                   raised, history, ops, config_vars, msmt_vars,
                   distributed_vars>>

QubitErrorAny ==
    \E channel \in Channels : \E draws \in ChannelDraws(channel) :
        QubitError(channel, draws)

ChannelNext == QubitErrorAny

SpecChannel == Init /\ [][ChannelNext]_vars

\* ------------------------------------------------------- the actions alone
\* The engine as a reset has returned it, with one X error sampled on the
\* first qubit of the first layer: the grid and the syndrome of FirstPass.
\* ops counts the actions applied from here on.
InitStep ==
    /\ stack_depth \in StackDepths
    /\ p_error = 10
    /\ p_msmt = 10
    /\ qubits = FirstPass[stack_depth].qubits
    /\ state = FirstPass[stack_depth].state
    /\ next_state = zeros(stack_depth, syndrome_size)
    /\ ground_state = TRUE
    /\ pc = "idle"
    /\ error_channel = "dp"
    /\ reset_p_error = NoArgument
    /\ channel_draws = NoDraws
    /\ new_errors = FirstPass[stack_depth].new_errors
    /\ last_call = "reset"
    /\ raised = "none"
    /\ history = << >>
    /\ ops = 0
    /\ NoActor
    /\ NoBatch
    /\ NoSchedule
    /\ NoLearner
    /\ true_syndrome = zeros(stack_depth, syndrome_size)
    /\ uniform_msmt = [l \in Layers(stack_depth) |-> [i \in SynRows |-> [j \in SynRows |-> 50]]]
    /\ faulty_syndrome = zeros(stack_depth, syndrome_size)
    /\ msmt_called = FALSE

StepNext == StepAny

SpecStep == InitStep /\ [][StepNext]_vars

\* ------------------------------------------------------- measurement noise
\* The i-th position of an (h, d+1, d+1) array in row-major order.
syndrome_position(i) ==
    <<i \div (syndrome_size * syndrome_size),
      (i % (syndrome_size * syndrome_size)) \div syndrome_size,
      i % syndrome_size>>

SyndromePositions(n, k) ==
    {{syndrome_position(f[i]) : i \in 1..k} :
        f \in {g \in [1..k -> 0..(n - 1)] : \A i \in 1..(k - 1) : g[i] < g[i + 1]}}

\* The binary (h, d+1, d+1) array with ones at the positions of ones.
binary_array(h, ones) ==
    [l \in Layers(h) |-> [i \in SynRows |-> [j \in SynRows |->
        IF <<l, i, j>> \in ones THEN 1 ELSE 0]]]

\* np.random.uniform(0.0, 1.0, shape) with the draws below 0.1 at low.
uniform_array(h, low) ==
    [l \in Layers(h) |-> [i \in SynRows |-> [j \in SynRows |->
        IF <<l, i, j>> \in low THEN 5 ELSE 50]]]

\* A constructed environment, an argument for generate_measurement_error
\* and the uniform vector it will draw: at most MaxBits set bits and low
\* draws in all.
InitMsmt ==
    /\ stack_depth \in StackDepths
    /\ p_error = 10
    /\ p_msmt \in Probabilities
    /\ Constructed
    /\ NoActor
    /\ NoBatch
    /\ NoSchedule
    /\ NoLearner
    /\ \E k \in 0..MaxBits : \E k2 \in 0..k :
        LET n == stack_depth * syndrome_size * syndrome_size
        IN  /\ true_syndrome \in {binary_array(stack_depth, ones) :
                                    ones \in SyndromePositions(n, k - k2)}
            /\ uniform_msmt \in {uniform_array(stack_depth, low) :
                                    low \in SyndromePositions(n, k2)}
    /\ faulty_syndrome = zeros(stack_depth, syndrome_size)
    /\ msmt_called = FALSE

MeasurementError ==
    /\ ~msmt_called
    /\ faulty_syndrome' = generate_measurement_error(true_syndrome, uniform_msmt)
    /\ msmt_called' = TRUE
    /\ UNCHANGED <<true_syndrome, uniform_msmt, engine_vars, config_vars,
                   distributed_vars>>

MsmtNext == MeasurementError

SpecMsmt == InitMsmt /\ [][MsmtNext]_vars

\* ------------------------------------------------------------------ actor
\* Messages the learner puts in one behaviour.
MaxPuts == 2
\* maxsize of the transition queue.
MaxQueue == 1

\* args["size_action_history"]
size_action_history == 2
\* The configurations of the actor: args["num_environments"],
\* args["size_local_memory_buffer"], and whether a second process gets from
\* the weight queue.
ActorConfigs ==
    {[num_environments |-> 2, size_local_memory_buffer |-> 1, shared |-> FALSE],
     [num_environments |-> 2, size_local_memory_buffer |-> 1, shared |-> TRUE],
     [num_environments |-> 4, size_local_memory_buffer |-> 7, shared |-> FALSE],
     [num_environments |-> 4, size_local_memory_buffer |-> 8, shared |-> FALSE]}

Envs == 0..(num_environments - 1)
\* The environments environments.step may report as terminal in one
\* iteration: none, the first one, all.
TerminalChoices == {{}, {0}, Envs}

\* A weight message is (msg, network_params); a null msg is "None" and a
\* null parameter vector the empty tuple.
Messages(version) ==
    {[msg |-> "network_update", network_params |-> <<version>>],
     [msg |-> "None", network_params |-> <<version>>],
     [msg |-> "network_update", network_params |-> << >>]}

\* The state of environment i after a step and after a reset.
stepped(i) == [env |-> i, from |-> "step"]
reset_state(i) == [env |-> i, from |-> "reset"]

\* The slots of a local buffer.
Slots == 0..(size_local_memory_buffer - 1)

\* A cell of local_buffer_transitions names the transition it holds by the
\* environment and the slot of the iteration that wrote it, and counts in
\* sent the times the cell's transition was part of a published list.  A
\* cell of local_buffer_qvalues names the q_values row, the action and the
\* reward it holds in the same way.  empty and no_value are the cells
\* nothing has been written to.
empty == [env |-> 0 - 1, slot |-> 0 - 1, sent |-> 0]
no_value == [env |-> 0 - 1, slot |-> 0 - 1]

\* np.empty((num_environments, size_local_memory_buffer)): no cell holds
\* a value that is read before it is written.
np_empty(cell) == [i \in Envs |-> [slot \in Slots |-> cell]]

\* transitions with next_states[i] in the place of states[i] too
build_transitions_of_next(from_states, to_states, terminal_envs) ==
    [i \in Envs |-> [state |-> to_states[i], next_state |-> to_states[i],
                     terminal |-> i \in terminal_envs]]

\* transitions = np.asarray([Transition(states[i], actions[i], rewards[i],
\* next_states[i], terminals[i]) ...]): the values are copied into the
\* structured array.
build_transitions(from_states, to_states, terminal_envs) ==
    [i \in Envs |-> [state |-> from_states[i], next_state |-> to_states[i],
                     terminal |-> i \in terminal_envs]]

\* local_buffer[:, idx] = values
write_column(local_buffer, idx, values) ==
    [i \in Envs |-> [local_buffer[i] EXCEPT ![idx] = values[i]]]

\* The actor up to the head of its loop: all environments reset, counters
\* and buffer index zero, the local model with its initial parameters.
InitActor ==
    /\ stack_depth = 1
    /\ p_error = 10
    /\ p_msmt = 10
    /\ Constructed
    /\ true_syndrome = zeros(stack_depth, syndrome_size)
    /\ uniform_msmt = zeros(stack_depth, syndrome_size)
    /\ faulty_syndrome = zeros(stack_depth, syndrome_size)
    /\ msmt_called = FALSE
    /\ NoBatch
    /\ NoSchedule
    /\ NoLearner
    /\ \E config \in ActorConfigs :
        /\ num_environments = config.num_environments
        /\ size_local_memory_buffer = config.size_local_memory_buffer + 1
        /\ shared = config.shared
    /\ a_pc = "loop"
    /\ buffer_idx = 0
    /\ steps_per_episode = [i \in Envs |-> 0]
    /\ terminals = [i \in Envs |-> FALSE]
    /\ states = [i \in Envs |-> reset_state(i)]
    /\ next_states = [i \in Envs |-> reset_state(i)]
    /\ learner_actor_queue = << >>
    /\ learner_qsize = 0
    /\ gets_left = 0
    /\ model_params = <<0>>
    /\ actor_io_queue = << >>
    /\ taken = << >>
    /\ newer_pending = FALSE
    /\ iterations = 0
    /\ last_publish = << >>
    /\ puts = 0
    /\ transitions = << >>
    /\ local_buffer_transitions = np_empty(empty)
    /\ local_buffer_qvalues = np_empty(no_value)
    /\ published = << >>

\* The variables no action of the actor, the learner or a consumer writes.
actor_frame == <<engine_vars, config_vars, msmt_vars, batch_vars, schedule_vars,
                 learner_vars,
                 num_environments, size_local_memory_buffer, shared>>

\* the weight sync and the publish in every iteration
buffer_is_full_always(idx) == TRUE

\* if buffer_idx >= size_local_memory_buffer
buffer_is_full(idx) == idx >= size_local_memory_buffer

\* The loop from its head to the buffer write: the counters are raised,
\* every environment is stepped, the transitions go to slot buffer_idx.
ActorStep(terminal_envs) ==
    /\ a_pc = "loop"
    /\ steps_per_episode' = [i \in Envs |-> steps_per_episode[i] + 1]
    /\ terminals' = [i \in Envs |-> i \in terminal_envs]
    /\ next_states' = [i \in Envs |-> stepped(i)]
    /\ buffer_idx' = buffer_idx + 1
    /\ iterations' = iterations + 1
    /\ a_pc' = IF buffer_is_full(buffer_idx') THEN "qsize" ELSE "reset"
    /\ transitions' = build_transitions(states, next_states', terminal_envs)
    /\ local_buffer_transitions' =
        write_column(local_buffer_transitions, buffer_idx,
                     [i \in Envs |-> [env |-> i, slot |-> buffer_idx, sent |-> 0]])
    /\ local_buffer_qvalues' =
        write_column(local_buffer_qvalues, buffer_idx,
                     [i \in Envs |-> [env |-> i, slot |-> buffer_idx]])
    /\ UNCHANGED <<states, learner_actor_queue, learner_qsize, gets_left,
                   model_params, actor_io_queue, taken, newer_pending,
                   last_publish, puts, published, actor_frame>>

ActorStepAny == \E terminal_envs \in TerminalChoices : ActorStep(terminal_envs)

\* for _ in range(learner_qsize - 1) with the default argument
discards_none(k) == 0

\* for _ in range(learner_qsize - 1): the gets whose message is dropped
discards(k) == k - 1

\* learner_qsize := learner_actor_queue.qsize(): with an empty queue the
\* sync is skipped.
ActorQsize ==
    /\ a_pc = "qsize"
    /\ learner_qsize' = Len(learner_actor_queue)
    /\ taken' = << >>
    /\ newer_pending' = FALSE
    /\ IF learner_qsize' > 0
       THEN /\ gets_left' = discards(learner_qsize') + 1
            /\ a_pc' = "get"
       ELSE /\ gets_left' = 0
            /\ a_pc' = "put"
    /\ UNCHANGED <<buffer_idx, steps_per_episode, terminals, states, next_states,
                   learner_actor_queue, model_params, actor_io_queue,
                   iterations, last_publish, puts, transitions,
                   local_buffer_transitions, local_buffer_qvalues,
                   published, actor_frame>>

\* One learner_actor_queue.get() of the sync; it waits while the queue is
\* empty.  The message of every get but the last is dropped unread; the
\* last is asserted to hold neither a null msg nor null parameters and, if
\* it is a network_update, its parameters are written to the local model.
ActorGet ==
    /\ a_pc = "get"
    /\ learner_actor_queue /= << >>
    /\ LET message == Head(learner_actor_queue)
       IN  /\ learner_actor_queue' = Tail(learner_actor_queue)
           /\ taken' = Append(taken, message)
           /\ gets_left' = gets_left - 1
           /\ IF gets_left > 1
              THEN /\ a_pc' = "get"
                   /\ UNCHANGED <<model_params, newer_pending>>
              ELSE /\ newer_pending' = (learner_actor_queue' /= << >>)
                   /\ IF message.msg = "None" \/ message.network_params = << >>
                      THEN /\ a_pc' = "AssertionError"
                           /\ UNCHANGED model_params
                      ELSE /\ a_pc' = "put"
                           /\ model_params' =
                                IF message.msg = "network_update"
                                THEN message.network_params
                                ELSE model_params
    /\ UNCHANGED <<buffer_idx, steps_per_episode, terminals, states, next_states,
                   learner_qsize, actor_io_queue, iterations, last_publish,
                   puts, transitions,
                   local_buffer_transitions, local_buffer_qvalues,
                   published, actor_frame>>

\* local_buffer_transitions[:, :-1].flatten() zipped with the priorities
\* including the last slot, local_buffer_transitions.flatten()
to_send_all(n, size) == n * size

\* local_buffer_transitions[:, :-1].flatten() zipped with the priorities:
\* the number of pairs of to_send
to_send(n, size) == n * (size - 1)

\* put on a queue that holds any number of items
has_room_always(queue) == TRUE

\* actor_io_queue.put(to_send) waits while the queue holds maxsize items.
has_room(queue) == Len(queue) < MaxQueue

\* np.roll(local_buffer_qvalues, -1, axis=1)
roll(local_buffer) ==
    [i \in Envs |-> [slot \in Slots |->
        local_buffer[i][(slot + 1) % size_local_memory_buffer]]]

\* local_buffer[:, 1:]
all_but_first(local_buffer) ==
    [i \in Envs |-> [slot \in 0..(size_local_memory_buffer - 2) |->
        local_buffer[i][slot + 1]]]

\* local_buffer[:, :-1]
all_but_last(local_buffer) ==
    [i \in Envs |-> [slot \in 0..(size_local_memory_buffer - 2) |->
        local_buffer[i][slot]]]

\* compute_priorities(actions, rewards, qvalues, new_qvalues, ...): one
\* priority for every environment and slot, held as the cells it is
\* computed from.
compute_priorities(qvalues, new_qvalues) ==
    [i \in Envs |-> [slot \in DOMAIN qvalues[i] |->
        [of |-> qvalues[i][slot], successor |-> new_qvalues[i][slot]]]]

\* array.flatten() in column-major order
flatten_columns(array, columns) ==
    [k \in 1..(num_environments * columns) |->
        array[(k - 1) % num_environments][(k - 1) \div num_environments]]

\* array.flatten() of an array of shape (num_environments, columns): row
\* after row.
flatten(array, columns) ==
    [k \in 1..(num_environments * columns) |->
        array[(k - 1) \div columns][(k - 1) % columns]]

\* [*zip(a, b)]
zip(a, b) ==
    [k \in 1..(IF Len(a) < Len(b) THEN Len(a) ELSE Len(b)) |-> <<a[k], b[k]>>]

\* priorities and to_send, from the synchronisation to the put.
to_send_pairs ==
    LET new_local_qvalues == roll(local_buffer_qvalues)
        priorities == compute_priorities(all_but_last(local_buffer_qvalues),
                                         all_but_last(new_local_qvalues))
    IN  zip(flatten(all_but_last(local_buffer_transitions),
                    size_local_memory_buffer - 1),
            flatten(priorities, size_local_memory_buffer - 1))

\* The number of pairs of a published list that hold the transition of cell.
times_in(pairs, cell) ==
    Cardinality({k \in 1..Len(pairs) : pairs[k][1] = cell})

\* The cells of the local buffer with sent raised for each pair of the
\* published list that holds their transition.
count_sent(local_buffer, pairs) ==
    [i \in Envs |-> [slot \in Slots |->
        [local_buffer[i][slot] EXCEPT !.sent = @ + times_in(pairs, local_buffer[i][slot])]]]

\* actor_io_queue.put(to_send) and buffer_idx = 0.
ActorPut ==
    /\ a_pc = "put"
    /\ has_room(actor_io_queue)
    /\ actor_io_queue' = Append(actor_io_queue,
                                to_send(num_environments, size_local_memory_buffer))
    /\ last_publish' = <<[pairs |-> to_send(num_environments, size_local_memory_buffer),
                          iterations |-> iterations]>>
    /\ iterations' = 0
    /\ buffer_idx' = 0
    /\ a_pc' = "reset"
    /\ published' = to_send_pairs
    /\ local_buffer_transitions' = count_sent(local_buffer_transitions, published')
    /\ UNCHANGED <<steps_per_episode, terminals, states, next_states,
                   learner_actor_queue, learner_qsize, gets_left, model_params,
                   taken, newer_pending, puts, transitions,
                   local_buffer_qvalues, actor_frame>>

\* no episode is over-long
too_many_steps_never(i) == FALSE

\* too_many_steps = steps_per_episode > size_action_history
too_many_steps(i) == steps_per_episode[i] > size_action_history

\* np.argwhere(np.logical_or(terminals, too_many_steps)).flatten()
indices == {i \in Envs : terminals[i] \/ too_many_steps(i)}

\* next_states = reset_states
overwrite_all(listed, i) == reset_state(i)

\* next_states[indices] = reset_states[indices]
overwrite(listed, i) == IF i \in listed THEN reset_state(i) ELSE next_states[i]

\* The end of the iteration: the terminal and the over-long environments
\* are reset and their counters zeroed, states = next_states.
ActorResetTerminal ==
    /\ a_pc = "reset"
    /\ next_states' = [i \in Envs |-> overwrite(indices, i)]
    /\ steps_per_episode' =
        [i \in Envs |-> IF i \in indices THEN 0 ELSE steps_per_episode[i]]
    /\ states' = next_states'
    /\ a_pc' = "loop"
    /\ UNCHANGED <<buffer_idx, terminals, learner_actor_queue, learner_qsize,
                   gets_left, model_params, actor_io_queue, taken, newer_pending,
                   iterations, last_publish, puts, transitions,
                   local_buffer_transitions, local_buffer_qvalues,
                   published, actor_frame>>

\* The learner puts a message in the weight queue.
LearnerPut ==
    /\ puts < MaxPuts
    /\ \E message \in Messages(puts + 1) :
        learner_actor_queue' = Append(learner_actor_queue, message)
    /\ puts' = puts + 1
    /\ UNCHANGED <<a_pc, buffer_idx, steps_per_episode, terminals, states,
                   next_states, learner_qsize, gets_left, model_params,
                   actor_io_queue, taken, newer_pending, iterations,
                   last_publish, transitions,
                   local_buffer_transitions, local_buffer_qvalues,
                   published, actor_frame>>

\* Another actor that was handed the same weight queue gets a message.
OtherGet ==
    /\ shared
    /\ learner_actor_queue /= << >>
    /\ learner_actor_queue' = Tail(learner_actor_queue)
    /\ UNCHANGED <<a_pc, buffer_idx, steps_per_episode, terminals, states,
                   next_states, learner_qsize, gets_left, model_params,
                   actor_io_queue, taken, newer_pending, iterations,
                   last_publish, puts, transitions,
                   local_buffer_transitions, local_buffer_qvalues,
                   published, actor_frame>>

\* The replay memory gets a batch from the transition queue.
ConsumerGet ==
    /\ actor_io_queue /= << >>
    /\ actor_io_queue' = Tail(actor_io_queue)
    /\ UNCHANGED <<a_pc, buffer_idx, steps_per_episode, terminals, states,
                   next_states, learner_actor_queue, learner_qsize, gets_left,
                   model_params, taken, newer_pending, iterations,
                   last_publish, puts, transitions,
                   local_buffer_transitions, local_buffer_qvalues,
                   published, actor_frame>>

ActorNext ==
    \/ ActorStepAny
    \/ ActorQsize
    \/ ActorGet
    \/ ActorPut
    \/ ActorResetTerminal
    \/ LearnerPut
    \/ OtherGet
    \/ ConsumerGet

SpecActor == InitActor /\ [][ActorNext]_vars

\* The steps of the actor process itself.
ActorProcess ==
    ActorStepAny \/ ActorQsize \/ ActorGet \/ ActorPut \/ ActorResetTerminal

\* The actor process is scheduled whenever it can run and the replay
\* memory keeps getting from the transition queue; the actor runs two
\* environments.
InitActorFair == InitActor /\ num_environments = 2

SpecActorFair ==
    /\ InitActorFair
    /\ [][ActorNext]_vars
    /\ WF_vars(ActorProcess)
    /\ WF_vars(ConsumerGet)

\* -------------------------------------------------------------- schedules
\* The latest reading of time() in one behaviour.
MaxTime == 3

\* Rates and factors are held in percent; a decay factor is the fraction
\* num / den.
Decays == {[num |-> 1, den |-> 2], [num |-> 1, den |-> 1], [num |-> 2, den |-> 1]}

\* The args of an actor: one decay factor for all schedules, the base,
\* start, minimum and target values, and rl_type.
ScheduleArgs ==
    {[rl_type |-> type, epsilon |-> 80, decay_factor_epsilon |-> decay,
      min_value_factor_epsilon |-> 30,
      p_error |-> 10, p_error_start |-> 1, p_error_anneal |-> decay,
      p_msmt |-> 6, p_msmt_start |-> 1, p_msmt_anneal |-> decay,
      discount_factor |-> 95, discount_factor_start |-> 50,
      discount_factor_anneal |-> decay,
      decay_factor_intermediate_reward |-> decay,
      min_value_factor_intermediate_reward |-> 20] :
        type \in {"q", "v"}, decay \in Decays}

RECURSIVE power(_, _)
power(n, t) == IF t <= 0 THEN 1 ELSE n * power(n, t - 1)

maximum(a, b) == IF a >= b THEN a ELSE b
minimum(a, b) == IF a <= b THEN a ELSE b

\* distributed.util.anneal_factor: base_factor * decay_factor ** t, not
\* below min_value and not above max_value (1.0 by default).
anneal_factor(time_difference, decay_factor, min_value, max_value, base_factor) ==
    minimum(max_value,
            maximum(min_value,
                    (base_factor * power(decay_factor.num, time_difference))
                        \div power(decay_factor.den, time_difference)))

\* delta_t taken from the epoch instead of performance_start
elapsed_since_epoch(select_action_start, start) == select_action_start

\* delta_t = select_action_start - performance_start
elapsed(select_action_start, start) == select_action_start - start

\* The epsilon handed to select_actions (rl_type "q") and to
\* select_actions_value_network (rl_type "v").
selection_epsilon(args, annealed_epsilon) ==
    IF args.rl_type = "q" THEN annealed_epsilon ELSE args.epsilon

\* The loop from time() at its head to the call of the action selection
\* and to annealing_intermediate_reward.
annealed(args, delta_t) ==
    LET annealed_epsilon ==
            anneal_factor(delta_t, args.decay_factor_epsilon,
                          args.min_value_factor_epsilon, 100, args.epsilon)
    IN  [computed |-> TRUE,
         delta_t |-> delta_t,
         annealed_epsilon |-> annealed_epsilon,
         current_p_error |->
            anneal_factor(delta_t, args.p_error_anneal, args.p_error_start,
                          args.p_error, args.p_error_start),
         current_p_msmt |->
            anneal_factor(delta_t, args.p_msmt_anneal, args.p_msmt_start,
                          args.p_msmt, args.p_msmt_start),
         current_discount_factor |->
            anneal_factor(delta_t, args.discount_factor_anneal,
                          args.discount_factor_start, args.discount_factor,
                          args.discount_factor_start),
         annealing_intermediate_reward |->
            anneal_factor(delta_t, args.decay_factor_intermediate_reward,
                          args.min_value_factor_intermediate_reward, 100, 100),
         selection_epsilon |-> selection_epsilon(args, annealed_epsilon)]

\* An actor at performance_start = time(), before its loop.
InitSchedule ==
    /\ stack_depth = 1
    /\ p_error = 10
    /\ p_msmt = 10
    /\ Constructed
    /\ true_syndrome = zeros(stack_depth, syndrome_size)
    /\ uniform_msmt = zeros(stack_depth, syndrome_size)
    /\ faulty_syndrome = zeros(stack_depth, syndrome_size)
    /\ msmt_called = FALSE
    /\ NoActor
    /\ NoBatch
    /\ NoLearner
    /\ clock \in 0..1
    /\ performance_start = clock
    /\ schedule_args \in ScheduleArgs
    /\ schedule = NoValues
    /\ schedule_log = {}

schedule_frame == <<engine_vars, config_vars, msmt_vars, actor_vars, batch_vars,
                    learner_vars>>

\* Time passes.
Tick ==
    /\ clock < MaxTime
    /\ clock' = clock + 1
    /\ UNCHANGED <<performance_start, schedule_args, schedule, schedule_log,
                   schedule_frame>>

\* One iteration of the loop, from its head to the action selection.
ActorAnneal ==
    /\ schedule' = annealed(schedule_args, elapsed(clock, performance_start))
    /\ schedule_log' = schedule_log \cup {[at |-> clock, values |-> schedule']}
    /\ UNCHANGED <<clock, performance_start, schedule_args, schedule_frame>>

ScheduleNext == Tick \/ ActorAnneal

SpecSchedule == InitSchedule /\ [][ScheduleNext]_vars

\* ----------------------------------------------------------- data_to_batch
\* The longest list of transitions and of weights in a payload.
MaxBatch == 2

\* A value that may be None: None, or Some(v).
None == [none |-> TRUE, value |-> << >>]
Some(v) == [none |-> FALSE, value |-> v]

\* A transition is held as the number of its fields: 5 for
\* (state, action, reward, next_state, terminal), 9 with the four optimal
\* fields of value learning, 4 for a tuple with a field missing.
Transitions == {4, 5, 9}

\* The sequences over set of length at most n.
SeqsUpTo(set, n) == UNION {[1..k -> set] : k \in 0..n}

\* The payloads (batch, memory_weights, indices).
Payloads ==
    {<<b, w, None>> :
        b \in {None} \cup {Some(t) : t \in SeqsUpTo(Transitions, MaxBatch)},
        w \in {None} \cup {Some(t) : t \in SeqsUpTo({1}, MaxBatch)}}

\* zip(*batch): as many tuples as the shortest transition has fields, none
\* for an empty batch.
RECURSIVE zipped(_)
zipped(batch) ==
    IF batch = << >> THEN 0
    ELSE IF Len(batch) = 1 THEN Head(batch)
    ELSE LET rest == zipped(Tail(batch))
         IN  IF Head(batch) < rest THEN Head(batch) ELSE rest

\* The number of names the tuple assignment unpacks zip(*batch) into.
unpacked(type) == IF type = "v" THEN 9 ELSE 5

\* What a call returns or raises.
returned(batch, weights) ==
    [called |-> TRUE, raised |-> "none", size |-> Len(batch), weights |-> weights]
raises(error) == [called |-> TRUE, raised |-> error, size |-> 0, weights |-> 0]

\* data_to_batch without the assertion on the length of the weights
data_to_batch_any_weights(payload, size, type) ==
    LET batch == payload[1]
        memory_weights == payload[2]
    IN  IF batch.none \/ Len(batch.value) /= size
        THEN raises("AssertionError")
        ELSE IF zipped(batch.value) /= unpacked(type)
        THEN raises("NameError")
        ELSE returned(batch.value,
                      IF memory_weights.none THEN 0 ELSE Len(memory_weights.value))

\* data_to_batch(data, device, batch_size, rl_type): the two assertions;
\* then the tuple assignment from zip(*batch), whose failure is caught and
\* printed and leaves list_state unbound, so that the next statement
\* raises; then the tensors, one row for each transition of the batch.
data_to_batch(payload, size, type) ==
    LET batch == payload[1]
        memory_weights == payload[2]
    IN  IF batch.none \/ Len(batch.value) /= size
        THEN raises("AssertionError")
        ELSE IF ~memory_weights.none /\ Len(memory_weights.value) /= size
        THEN raises("AssertionError")
        ELSE IF zipped(batch.value) /= unpacked(type)
        THEN raises("NameError")
        ELSE returned(batch.value,
                      IF memory_weights.none THEN 0 ELSE Len(memory_weights.value))

\* A learner about to call data_to_batch on a payload.
InitBatch ==
    /\ stack_depth = 1
    /\ p_error = 10
    /\ p_msmt = 10
    /\ Constructed
    /\ true_syndrome = zeros(stack_depth, syndrome_size)
    /\ uniform_msmt = zeros(stack_depth, syndrome_size)
    /\ faulty_syndrome = zeros(stack_depth, syndrome_size)
    /\ msmt_called = FALSE
    /\ NoActor
    /\ NoSchedule
    /\ NoLearner
    /\ data \in Payloads
    /\ batch_size \in 0..MaxBatch
    /\ rl_type \in {"q", "v"}
    /\ batch_result = [called |-> FALSE, raised |-> "none", size |-> 0, weights |-> 0]

DataToBatch ==
    /\ ~batch_result.called
    /\ batch_result' = data_to_batch(data, batch_size, rl_type)
    /\ UNCHANGED <<data, batch_size, rl_type, engine_vars, config_vars,
                   msmt_vars, actor_vars, schedule_vars, learner_vars>>

BatchNext == DataToBatch

SpecBatch == InitBatch /\ [][BatchNext]_vars

\* ---------------------------------------------------------- learning steps
\* The number of learning steps in one behaviour.
MaxSteps == 2

\* The batch sizes of a payload.
BatchSizes == {1, 2}

\* A state is held as what a network computes from it, up to the factor of
\* the network's parameter: its value, its score for every action, and the
\* values of the successor states that are enumerated for it.
States ==
    {[value |-> 100, scores |-> <<100, 300>>, successors |-> <<100, 300>>],
     [value |-> 0 - 300, scores |-> <<0 - 300, 0 - 100>>, successors |-> <<0 - 300, 0>>]}

Rewards == {0 - 250, 100}

\* Transition(state, action, reward, next_state, terminal)
QTransitions ==
    {[state |-> [value |-> 100, scores |-> <<100, 300>>, successors |-> <<100, 300>>],
      action |-> 1, reward |-> reward, next_state |-> next, terminal |-> terminal] :
        reward \in Rewards, next \in States, terminal \in BOOLEAN}

\* VTransition(..., optimal_action, optimal_reward, optimal_next_state,
\* optimal_terminal)
VTransitions ==
    {[state |-> from, action |-> 1, reward |-> 0, next_state |-> from,
      terminal |-> FALSE, optimal_action |-> 1, optimal_reward |-> reward,
      optimal_next_state |-> next, optimal_terminal |-> terminal] :
        from \in States, reward \in Rewards, next \in States,
        terminal \in BOOLEAN}

\* The input_data of a learning step: a batch of transitions of the
\* step's kind, importance weights or None, and replay indices.
InputData(type) ==
    {<<Some(batch), weights, Some([i \in 1..Len(batch) |-> 10 + i])>> :
        batch \in UNION {[1..n -> (IF type = "q" THEN QTransitions ELSE VTransitions)] :
                            n \in BatchSizes},
        weights \in {None, Some(<<1, 3>>), Some(<<2>>)}}

\* input_data as data_to_batch reads it: each transition by the number of
\* its fields.
as_payload(input_data) ==
    <<IF input_data[1].none THEN None
      ELSE Some([i \in 1..Len(input_data[1].value) |->
                    Cardinality(DOMAIN input_data[1].value[i])]),
      input_data[2], input_data[3]>>

\* network(batch): the output of a network for one state.
q_output(network, st) == [a \in DOMAIN st.scores |-> network.params * st.scores[a]]
v_output(network, st) == network.params * st.value

\* tensor.max(1)[0] for one row
RECURSIVE row_max(_)
row_max(row) ==
    IF Len(row) = 1 THEN row[1]
    ELSE maximum(row[1], row_max(Tail(row)))

\* target_output * (~batch_terminal).type(torch.float32) * discount_factor
expected_q_value(target_output, terminal, discount_factor) ==
    (target_output * (IF terminal THEN 0 ELSE 1) * discount_factor.num)
        \div discount_factor.den

\* tensor.clamp(low, high)
clamp(x, low, high) == maximum(low, minimum(high, x))

\* The target of one sample in perform_q_learning_step, without the clamp
q_target_unclamped(target, sample, discount_factor) ==
    expected_q_value(row_max(q_output(target, sample.next_state)),
                     sample.terminal, discount_factor) + sample.reward

\* The target of one sample in perform_q_learning_step
q_target(target, sample, discount_factor) ==
    clamp(expected_q_value(row_max(q_output(target, sample.next_state)),
                           sample.terminal, discount_factor) + sample.reward,
          0 - 200, 200)

\* The successor states enumerated for a state, as the target network
\* values them.
successor_values(target, st) ==
    [k \in DOMAIN st.successors |-> target.params * st.successors[k]]

\* The value of the successor in perform_value_network_learning_step, taken
\* from the optimal successor state whatever reevaluate_all is
v_successor_value_given(target, sample, reevaluate_all) ==
    v_output(target, sample.optimal_next_state)

\* The value of the successor in perform_value_network_learning_step
v_successor_value(target, sample, reevaluate_all) ==
    IF reevaluate_all
    THEN row_max(successor_values(target, sample.state))
    ELSE v_output(target, sample.optimal_next_state)

\* The target of one sample in perform_value_network_learning_step
v_target(target, sample, discount_factor, reevaluate_all) ==
    clamp(expected_q_value(v_successor_value(target, sample, reevaluate_all),
                           sample.optimal_terminal, discount_factor)
            + sample.optimal_reward,
          0 - 120, 120)

\* criterion(target, output) for one sample: a loss without reduction,
\* the squared error.
criterion(target, output) == (target - output) * (target - output)

absolute(x) == IF x < 0 THEN 0 - x ELSE x

\* loss = weights * loss when weights is not None
weighted(loss, weights) ==
    IF weights.none THEN loss
    ELSE [i \in DOMAIN loss |-> weights.value[i] * loss[i]]

RECURSIVE sum_of(_)
sum_of(row) == IF row = << >> THEN 0 ELSE Head(row) + sum_of(Tail(row))

\* Priorities computed from the mean of the loss
priorities_of_mean(loss) ==
    [i \in DOMAIN loss |-> absolute(sum_of(loss) \div Len(loss))]

\* priorities = np.absolute(loss.cpu().detach().numpy())
priorities_of(loss) == [i \in DOMAIN loss |-> absolute(loss[i])]

\* The gradient the backward pass leaves on the target network if its
\* forward pass is recorded
recorded(gradient) == Some(gradient)

\* with torch.no_grad(): the forward pass of the target network is not
\* recorded and the backward pass leaves it no gradient.
no_grad(gradient) == None

\* loss.mean().backward() for the policy network: the direction of the
\* gradient of the loss in the parameter.
backward(network, outputs, targets, inputs, weights) ==
    LET terms == [i \in DOMAIN outputs |->
                     (IF weights.none THEN 1 ELSE weights.value[i])
                     * (outputs[i] - targets[i]) * inputs[i]]
        total == sum_of(terms)
    IN  IF total > 0 THEN 1 ELSE IF total < 0 THEN 0 - 1 ELSE 0

\* optimizer.step() on one network: a parameter without gradient is left
\* alone, one with a gradient moves against it.
optimizer_step(network, held) ==
    IF held /\ ~network.grad.none
    THEN [network EXCEPT !.params = network.params - network.grad.value]
    ELSE network

\* What a learning step returns or raises.
step_returned(targets, loss, priorities, replay_indices) ==
    [called |-> TRUE, raised |-> "none", target_q_values |-> targets,
     loss |-> loss, priorities |-> priorities, indices |-> replay_indices]
step_raised(error) ==
    [called |-> TRUE, raised |-> error, target_q_values |-> << >>,
     loss |-> << >>, priorities |-> << >>, indices |-> None]
not_called ==
    [called |-> FALSE, raised |-> "none", target_q_values |-> << >>,
     loss |-> << >>, priorities |-> << >>, indices |-> None]

\* A learner with its two networks and an input_data for its kind of step.
InitLearner ==
    /\ stack_depth = 1
    /\ p_error = 10
    /\ p_msmt = 10
    /\ Constructed
    /\ true_syndrome = zeros(stack_depth, syndrome_size)
    /\ uniform_msmt = zeros(stack_depth, syndrome_size)
    /\ faulty_syndrome = zeros(stack_depth, syndrome_size)
    /\ msmt_called = FALSE
    /\ NoActor
    /\ NoSchedule
    /\ rl_type \in {"q", "v"}
    /\ data \in InputData(rl_type)
    /\ batch_size = 2
    /\ batch_result = [called |-> FALSE, raised |-> "none", size |-> 0, weights |-> 0]
    /\ policy_network = [params |-> 1, grad |-> None, training |-> FALSE]
    /\ target_network \in {[params |-> k, grad |-> None, training |-> TRUE] : k \in {1, 2}}
    /\ learner_args \in
        {[discount_factor |-> [num |-> 1, den |-> 2], reevaluate_all |-> r,
          optimizer |-> o] :
            r \in (IF rl_type = "v" THEN BOOLEAN ELSE {FALSE}),
            o \in {{"policy"}, {"policy", "target"}}}
    /\ step_result = not_called
    /\ steps = 0

learner_frame == <<engine_vars, config_vars, msmt_vars, actor_vars, schedule_vars,
                   data, batch_size, rl_type, learner_args>>

\* The part the two learning steps share, from the targets on: loss,
\* priorities, backward pass, optimizer step, return.
LearningStep(batch, outputs, targets, inputs) ==
    LET weights == data[2]
        loss == weighted([i \in DOMAIN targets |-> criterion(targets[i], outputs[i])],
                         weights)
        policy_grad == Some(backward(policy_network, outputs, targets, inputs, weights))
        target_grad == no_grad(backward(target_network, targets, outputs, inputs,
                                        weights))
    IN  /\ step_result' = step_returned(targets, loss, priorities_of(loss), data[3])
        /\ policy_network' =
            optimizer_step([policy_network EXCEPT !.grad = policy_grad,
                                                  !.training = TRUE],
                           "policy" \in learner_args.optimizer)
        /\ target_network' =
            optimizer_step([target_network EXCEPT
                                !.grad = IF target_grad.none THEN @ ELSE target_grad,
                                !.training = FALSE],
                           "target" \in learner_args.optimizer)

\* perform_q_learning_step
PerformQLearningStep ==
    /\ rl_type = "q"
    /\ steps < MaxSteps
    /\ steps' = steps + 1
    /\ batch_result' = data_to_batch(as_payload(data), batch_size, "q")
    /\ IF batch_result'.raised /= "none"
       THEN /\ step_result' = step_raised(batch_result'.raised)
            /\ UNCHANGED <<policy_network, target_network>>
       ELSE LET batch == data[1].value
                outputs == [i \in DOMAIN batch |->
                    q_output(policy_network, batch[i].state)[batch[i].action]]
                inputs == [i \in DOMAIN batch |->
                    batch[i].state.scores[batch[i].action]]
                targets == [i \in DOMAIN batch |->
                    q_target(target_network, batch[i], learner_args.discount_factor)]
            IN  LearningStep(batch, outputs, targets, inputs)
    /\ UNCHANGED learner_frame

\* perform_value_network_learning_step
PerformValueNetworkLearningStep ==
    /\ rl_type = "v"
    /\ steps < MaxSteps
    /\ steps' = steps + 1
    /\ batch_result' = data_to_batch(as_payload(data), batch_size, "v")
    /\ IF batch_result'.raised /= "none"
       THEN /\ step_result' = step_raised(batch_result'.raised)
            /\ UNCHANGED <<policy_network, target_network>>
       ELSE LET batch == data[1].value
                outputs == [i \in DOMAIN batch |-> v_output(policy_network, batch[i].state)]
                inputs == [i \in DOMAIN batch |-> batch[i].state.value]
                targets == [i \in DOMAIN batch |->
                    v_target(target_network, batch[i], learner_args.discount_factor,
                             learner_args.reevaluate_all)]
            IN  LearningStep(batch, outputs, targets, inputs)
    /\ UNCHANGED learner_frame

LearnerNext == PerformQLearningStep \/ PerformValueNetworkLearningStep

SpecLearner == InitLearner /\ [][LearnerNext]_vars

\* ------------------------------------------------------------- properties
\* reset has returned a grid and its syndrome.
ResetReturned == pc = "idle" /\ last_call = "reset" /\ raised = "none"

\* The grid and the stored syndrome after the n-th step of the history.
after(n) ==
    IF n = Len(history) THEN [qubits |-> qubits, state |-> state]
    ELSE [qubits |-> history[n + 1].qubits, state |-> history[n + 1].state]

\* C1: applying step with an action (row, col, op) and then step with the
\* same action again leaves the grid equal to the original grid and the
\* syndrome equal to the original syndrome.
C1_StepTwiceRestores ==
    /\ \A n \in 1..Len(history) :
        LET a == history[n].action
        IN  step_qubits(after(n).qubits, a.row, a.col, a.add_operator)
                = history[n].qubits
    /\ \A n \in 2..Len(history) :
        history[n].action = history[n - 1].action
            => /\ after(n).qubits = history[n - 1].qubits
               /\ after(n).state = history[n - 1].state

C1_Witness ==
    /\ Len(history) = 2
    /\ history[1].action = [row |-> 1, col |-> 1, add_operator |-> 1]
    /\ history[2].action = history[1].action
    /\ history[1].qubits = zeros(stack_depth, system_size)
    /\ history[2].qubits[0][1][1] = 1
    /\ qubits = zeros(stack_depth, system_size)
    /\ state = zeros(stack_depth, syndrome_size)

\* C2: the Pauli rule table, by which every step has composed its operator
\* onto the grid, is symmetric, has the identity 0 as its neutral element,
\* composes every operator with itself to 0, and composes X (1) with Z (3)
\* to Y (2).
C2_RuleTable ==
    /\ \A n \in 1..Len(history), l \in Layers(stack_depth) :
        LET a == history[n].action
        IN  after(n).qubits[l][a.row][a.col]
                = rule_table[history[n].qubits[l][a.row][a.col]][a.add_operator]
    /\ \A a \in 0..3, b \in 0..3 : rule_table[a][b] = rule_table[b][a]
    /\ \A a \in 0..3 : rule_table[a][0] = a /\ rule_table[0][a] = a
    /\ \A a \in 0..3 : rule_table[a][a] = 0
    /\ rule_table[1][3] = 2

C2_Witness ==
    /\ Len(history) = 1
    /\ history[1].action.add_operator = 3
    /\ history[1].qubits[0][history[1].action.row][history[1].action.col] = 1
    /\ qubits[0][history[1].action.row][history[1].action.col] = 2

\* C3: after every step or reset the stored state is the syndrome of the
\* current grid, never a stale one.
C3_StateCurrent ==
    (pc = "idle" /\ last_call \in {"step", "reset"} /\ raised /= "Exception")
        => state = create_syndrome_output_stack(qubits)

\* The qubits around syndrome site (i, j).
adjacent(i, j) ==
    {s \in {<<i - 1, j - 1>>, <<i - 1, j>>, <<i, j - 1>>, <<i, j>>} : s \in Sites}

\* The parity of the qubits around (i, j) in layer l that carry a label of
\* labels.
parity(q, labels, l, i, j) ==
    Cardinality({s \in adjacent(i, j) : q[l][s[1]][s[2]] \in labels}) % 2

\* C4: every entry of the derived syndrome is the parity of the surrounding
\* qubits that carry X or Y at a vertex site, of those that carry Z or Y at
\* a plaquette site, and 0 at a site of neither mask.
C4_SyndromeIsParity ==
    ResetReturned =>
        \A l \in Layers(stack_depth), i \in SynRows, j \in SynRows :
            state[l][i][j] =
                IF vertex_mask[i][j] = 1 THEN parity(qubits, {1, 2}, l, i, j)
                ELSE IF plaquette_mask[i][j] = 1 THEN parity(qubits, {3, 2}, l, i, j)
                ELSE 0

C4_Witness ==
    /\ ResetReturned
    /\ \E i \in SynRows, j \in SynRows : vertex_mask[i][j] = 1 /\ state[0][i][j] = 1
    /\ \E i \in SynRows, j \in SynRows : plaquette_mask[i][j] = 1 /\ state[0][i][j] = 1
    /\ \E i \in SynRows, j \in SynRows :
        /\ vertex_mask[i][j] = 1
        /\ state[0][i][j] = 0
        /\ \E s \in adjacent(i, j) : qubits[0][s[1]][s[2]] /= 0

\* step with operator op at every site of sites, one action after the other.
RECURSIVE apply_all(_, _, _)
apply_all(q, sites, op) ==
    IF sites = {} THEN q
    ELSE LET s == CHOOSE t \in sites : TRUE
         IN  apply_all(step_qubits(q, s[1], s[2], op), sites \ {s}, op)

\* C5: applying a full stabilizer, X on all qubits around one plaquette
\* site or Z on all qubits around one vertex site, leaves the derived
\* syndrome unchanged.
C5_StabilizerKeepsSyndrome ==
    ResetReturned =>
        \A i \in SynRows, j \in SynRows :
            /\ plaquette_mask[i][j] = 1 =>
                create_syndrome_output_stack(apply_all(qubits, adjacent(i, j), 1)) = state
            /\ vertex_mask[i][j] = 1 =>
                create_syndrome_output_stack(apply_all(qubits, adjacent(i, j), 3)) = state

C5_Witness ==
    /\ ResetReturned
    /\ state /= zeros(stack_depth, syndrome_size)
    /\ \E i \in 1..(system_size - 1), j \in 1..(system_size - 1) :
        /\ plaquette_mask[i][j] = 1
        /\ qubits[0][i][j] = 2
        /\ apply_all(qubits, adjacent(i, j), 1)[0][i][j] = 3
        /\ apply_all(qubits, adjacent(i, j), 1)[0][i - 1][j - 1] = 1

\* C6: the faulty syndrome equals the input at every site of neither mask,
\* and a bit is flipped only at a masked site whose draw is below p_msmt.
C6_FlipsOnlyWhereMaskedAndDrawn ==
    msmt_called =>
        \A l \in Layers(stack_depth), i \in SynRows, j \in SynRows :
            LET masked == vertex_mask[i][j] + plaquette_mask[i][j] > 0
            IN  /\ ~masked => faulty_syndrome[l][i][j] = true_syndrome[l][i][j]
                /\ faulty_syndrome[l][i][j] /= true_syndrome[l][i][j]
                    => /\ masked
                       /\ uniform_msmt[l][i][j] < p_msmt
                       /\ faulty_syndrome[l][i][j] = 1 - true_syndrome[l][i][j]

C6_Witness ==
    /\ msmt_called
    /\ \E l \in Layers(stack_depth), i \in SynRows, j \in SynRows :
        /\ vertex_mask[i][j] + plaquette_mask[i][j] > 0
        /\ faulty_syndrome[l][i][j] /= true_syndrome[l][i][j]
    /\ \E l \in Layers(stack_depth), i \in SynRows, j \in SynRows :
        /\ vertex_mask[i][j] + plaquette_mask[i][j] = 0
        /\ uniform_msmt[l][i][j] < p_msmt
        /\ faulty_syndrome[l][i][j] = true_syndrome[l][i][j]

\* The input is 0 at every site of neither mask, as a derived syndrome is.
ZeroWhereUnmasked(a) ==
    \A l \in DOMAIN a, i \in SynRows, j \in SynRows :
        vertex_mask[i][j] + plaquette_mask[i][j] = 0 => a[l][i][j] = 0

C8_ResetLeavesAnError ==
    ResetReturned =>
        \E l \in Layers(stack_depth), row \in Rows, col \in Rows :
            qubits[l][row][col] /= 0

C8_Witness ==
    /\ ResetReturned
    /\ qubits[0][0][0] = 0
    /\ \E row \in Rows, col \in Rows : qubits[stack_depth - 1][row][col] /= 0

\* The number of qubits of the grid that carry an operator.
weight(q) ==
    Cardinality({s \in Layers(Cardinality(DOMAIN q)) \X Rows \X Rows :
                    q[s[1]][s[2]][s[3]] /= 0})

\* C9 as stated: with system_size 3, stack_depth 1 and a positive p_error,
\* the syndrome reset returns has at least one nonzero entry.
C9_ResetSyndromeNonzero ==
    (ResetReturned /\ system_size = 3 /\ stack_depth = 1 /\ p_error > 0)
        => state /= zeros(stack_depth, syndrome_size)

\* C9: with system_size 3, stack_depth 1 and a positive p_error, the
\* syndrome reset returns has at least one nonzero entry whenever the grid
\* reset leaves carries exactly one operator.
C9_SingleErrorSyndromeNonzero ==
    (ResetReturned /\ system_size = 3 /\ stack_depth = 1 /\ p_error > 0
        /\ weight(qubits) = 1)
        => state /= zeros(stack_depth, syndrome_size)

C9_Witness ==
    /\ ResetReturned
    /\ system_size = 3
    /\ stack_depth = 1
    /\ p_error > 0
    /\ weight(qubits) = 1
    /\ state /= zeros(stack_depth, syndrome_size)

\* C10: with p_error = 0 reset never leaves its loop; with a positive
\* p_error, a supported channel and fair sampling it eventually returns.
C10_ResetTermination ==
    /\ [][(pc = "reset" /\ p_error = 0 /\ error_channel \in Channels)
            => pc' = "reset"]_vars
    /\ (pc = "reset" /\ p_error > 0 /\ error_channel \in Channels)
            ~> ResetReturned

C10_Witness ==
    /\ pc = "reset"
    /\ p_error = 0
    /\ error_channel \in Channels
    /\ qubits = zeros(stack_depth, system_size)

\* C11: a step with action (row, col, op) composes op with the operator at
\* qubit (row, col) in every layer of the stack and leaves the operator of
\* every other qubit in every layer unchanged.
C11_StepFrame ==
    \A n \in 1..Len(history) :
        LET a == history[n].action
            before == history[n].qubits
        IN  \A l \in Layers(stack_depth), row \in Rows, col \in Rows :
                after(n).qubits[l][row][col] =
                    IF row = a.row /\ col = a.col
                    THEN rule_table[before[l][row][col]][a.add_operator]
                    ELSE before[l][row][col]

C11_Witness ==
    /\ stack_depth = 2
    /\ Len(history) = 1
    /\ history[1].action = [row |-> 1, col |-> 2, add_operator |-> 3]
    /\ \A l \in Layers(stack_depth) :
        /\ history[1].qubits[l][1][2] = 0
        /\ history[1].qubits[l][0][0] = 1
        /\ qubits[l][1][2] = 3
        /\ qubits[l][0][0] = 1

\* C12: a step whose action is the terminal sentinel (row 0, col 0, any
\* operator) returns, and returns terminal = true.
C12_SentinelIsTerminal ==
    (last_call = "step" /\ Len(history) >= 1
        /\ history[Len(history)].action.row = 0
        /\ history[Len(history)].action.col = 0)
        => (raised = "none" /\ is_terminal(state) = "True")

\* C13 as stated: an actor loop running 4 environments with a local buffer
\* capacity of 8 (as configured, or as the number of slots) publishes once
\* per 8 loop iterations, and each publish holds exactly 7 pairs.
C13_SevenPairsPerPublish ==
    (last_publish /= << >> /\ num_environments = 4
        /\ (size_local_memory_buffer = 8 \/ size_local_memory_buffer - 1 = 8))
        => (last_publish[1].iterations = 8 /\ last_publish[1].pairs = 7)

\* C13: the actor publishes once per size_local_memory_buffer loop
\* iterations, one more than configured, and each publish holds
\* num_environments * (size_local_memory_buffer - 1) pairs: with 4
\* environments and a buffer of 8 slots, once per 8 iterations with 28
\* pairs, 7 for each environment.
C13_PublishPerBuffer ==
    /\ iterations <= size_local_memory_buffer
    /\ buffer_idx = iterations
    /\ last_publish /= << >> =>
        /\ last_publish[1].iterations = size_local_memory_buffer
        /\ last_publish[1].pairs = num_environments * (size_local_memory_buffer - 1)
        /\ (num_environments = 4 /\ size_local_memory_buffer = 8)
            => (last_publish[1].iterations = 8 /\ last_publish[1].pairs = 28)

C13_Witness ==
    /\ num_environments = 4
    /\ size_local_memory_buffer = 8
    /\ last_publish = <<[pairs |-> 28, iterations |-> 8]>>
    /\ a_pc = "reset"
    /\ buffer_idx = 0

\* The last sync has taken its last message and passed its assertions.
SyncDone == a_pc = "put" /\ taken /= << >>

\* C14 as stated: the message a sync applies is the most recently enqueued
\* one under every interleaving with the learner: no newer message is
\* pending when it is applied.
C14_NewestOfAllApplied ==
    SyncDone =>
        /\ model_params = taken[Len(taken)].network_params
        /\ ~newer_pending

\* C14: a sync that read the size k >= 1 of a queue no other process gets
\* from takes exactly k messages, drops the first k - 1 and applies the
\* k-th, the newest one pending when the size was read.
C14_NewestAtSizeReadApplied ==
    /\ (~shared /\ a_pc = "get") =>
        /\ Len(taken) + gets_left = learner_qsize
        /\ Len(learner_actor_queue) >= gets_left
    /\ (~shared /\ SyncDone) =>
        /\ Len(taken) = learner_qsize
        /\ model_params = taken[Len(taken)].network_params

C14_Witness ==
    /\ ~shared
    /\ SyncDone
    /\ learner_qsize = 2
    /\ taken[1].network_params = <<1>>
    /\ model_params = <<2>>

malformed(message) == message.msg = "None" \/ message.network_params = << >>

\* C16: every message with a null msg or null parameters that the actor
\* has taken from the weight queue has made it fail its assertion.
C16_MalformedAlwaysFatal ==
    \A n \in 1..Len(taken) : malformed(taken[n]) => a_pc = "AssertionError"

\* C17: at the end of every iteration every environment that was terminal
\* in it or was over size_action_history steps has been reset and has the
\* step counter 0; at the start of every iteration no counter exceeds
\* size_action_history.
C17_ResetAtCeilingOrTerminal ==
    a_pc = "loop" =>
        \A i \in Envs :
            /\ steps_per_episode[i] <= size_action_history
            /\ terminals[i] => steps_per_episode[i] = 0
            /\ steps_per_episode[i] = 0 <=> states[i] = reset_state(i)

C17_Witness ==
    /\ a_pc = "loop"
    /\ iterations >= 3
    /\ terminals[0]
    /\ steps_per_episode[0] = 0
    /\ ~terminals[1]
    /\ steps_per_episode[1] = 0
    /\ states[1] = reset_state(1)

\* C18: when the actor resets the terminal and the over-long environments
\* of an iteration, every other environment keeps its step counter and
\* keeps as its next state the state its own step returned; only the
\* listed environments are overwritten.
C18_OthersUnaffected ==
    [][(a_pc = "reset" /\ a_pc' = "loop") =>
        \A i \in Envs :
            IF terminals[i] \/ steps_per_episode[i] > size_action_history
            THEN /\ steps_per_episode'[i] = 0
                 /\ states'[i] = reset_state(i)
            ELSE /\ steps_per_episode'[i] = steps_per_episode[i]
                 /\ next_states'[i] = stepped(i)
                 /\ states'[i] = next_states[i]]_vars

C18_Witness ==
    /\ a_pc = "loop"
    /\ num_environments = 4
    /\ terminals[0]
    /\ states[0] = reset_state(0)
    /\ \A i \in Envs \ {0} :
        /\ states[i] = stepped(i)
        /\ steps_per_episode[i] = 2

\* C19: while the transition queue is full at the publish the actor stays
\* in the put and steps no environment, writes no buffer slot and resets
\* nothing; the put, once made, appends the whole batch; and with a
\* consumer that keeps getting the put completes and the loop continues.
C19_Backpressure ==
    /\ [][(a_pc = "put" /\ Len(actor_io_queue) >= MaxQueue) =>
            /\ a_pc' = "put"
            /\ UNCHANGED <<buffer_idx, steps_per_episode, terminals, states,
                           next_states, iterations>>]_vars
    /\ [][(a_pc = "put" /\ a_pc' /= "put") =>
            actor_io_queue' = Append(actor_io_queue,
                num_environments * (size_local_memory_buffer - 1))]_vars
    /\ (a_pc = "put" /\ Len(actor_io_queue) >= MaxQueue) ~> (a_pc = "loop")

C19_Witness ==
    /\ a_pc = "put"
    /\ Len(actor_io_queue) = MaxQueue
    /\ buffer_idx = size_local_memory_buffer

\* C20: data_to_batch raises whenever the list of transitions is None or
\* its length differs from batch_size, and whenever weights are present
\* with a length other than batch_size; a batch it returns has batch_size
\* rows.
C20_BatchSizeChecked ==
    batch_result.called =>
        /\ (data[1].none \/ Len(data[1].value) /= batch_size)
                => batch_result.raised /= "none"
        /\ (~data[2].none /\ Len(data[2].value) /= batch_size)
                => batch_result.raised /= "none"
        /\ batch_result.raised = "none" => batch_result.size = batch_size

C20_Witness ==
    /\ batch_result.called
    /\ batch_result.raised = "AssertionError"
    /\ ~data[1].none
    /\ Len(data[1].value) = batch_size
    /\ batch_size = 2
    /\ data[2] = Some(<<1>>)

\* C23: in the stack reset returns, the operator of every site in every
\* layer h >= 1 is the rule-table composition of the operator below it
\* with the error freshly sampled for layer h at that site.
C23_LayerComposesBelow ==
    ResetReturned =>
        \A h \in Layers(stack_depth) \ {0}, row \in Rows, col \in Rows :
            qubits[h][row][col] =
                rule_table[qubits[h - 1][row][col]][new_errors[h][row][col]]

\* C24: in every layer of the grid, each shifted plane of each operator is
\* 0 along the high edge, the last column for a shift to the left and the
\* last row for a shift up, and either of them for the shift up and left;
\* so that a syndrome site on the high edge sums the qubits of that edge
\* next to it alone.
C24_ZeroFillAtHighEdge ==
    /\ \A v \in Operators, l \in Layers(stack_depth), k \in SynRows :
        /\ shifted_left(qubits, v, l, k, system_size) = 0
        /\ shifted_up(qubits, v, l, system_size, k) = 0
        /\ shifted_ul(qubits, v, l, k, system_size) = 0
        /\ shifted_ul(qubits, v, l, system_size, k) = 0
    /\ \A v \in Operators, l \in Layers(stack_depth), k \in SynRows :
        /\ neighbours(qubits, v, l, k, system_size)
            = plane(qubits, v, l, k, system_size)
              + shifted_up(qubits, v, l, k, system_size)
        /\ neighbours(qubits, v, l, system_size, k)
            = plane(qubits, v, l, system_size, k)
              + shifted_left(qubits, v, l, system_size, k)

C24_Witness ==
    /\ ResetReturned
    /\ qubits[0][0][0] = 1
    /\ qubits[0][system_size - 1][system_size - 1] = 3
    /\ shifted_ul(qubits, 1, 0, system_size, system_size) = 0
    /\ plane(qubits, 3, 0, system_size, system_size) = 1

\* C25: the errors of a pass of reset are drawn with the p_error handed to
\* that call: a call with p_error = 0 samples no error in any pass.
C25_ResetDrawsWithArgument ==
    [][(pc = "reset" /\ error_channel \in Channels /\ reset_p_error = 0)
            => new_errors' = zeros(stack_depth, system_size)]_vars

\* C27: in the independent-XZ channel the label of every site is the
\* rule-table composition of its X part (0 or 1) and its Z part (0 or 3):
\* 0 without an error, 1 for X alone, 3 for Z alone and 2 for both.
C27_IndependentXZComposes ==
    (last_call = "generate_qubit_error" /\ error_channel = "iidxz") =>
        \A row \in Rows, col \in Rows :
            LET x_part == IF <<0, row, col>> \in channel_draws.low /\ 5 < p_error
                          THEN 1 ELSE 0
                z_part == IF <<0, row, col>> \in channel_draws.low2 /\ 5 < p_error
                          THEN 3 ELSE 0
                label == new_errors[0][row][col]
            IN  /\ label = rule_table[x_part][z_part]
                /\ label \in 0..3
                /\ (x_part = 0 /\ z_part = 0) => label = 0
                /\ (x_part = 1 /\ z_part = 0) => label = 1
                /\ (x_part = 0 /\ z_part = 3) => label = 3
                /\ (x_part = 1 /\ z_part = 3) => label = 2

C27_Witness ==
    /\ last_call = "generate_qubit_error"
    /\ error_channel = "iidxz"
    /\ p_error = 10
    /\ channel_draws.low = {<<0, 1, 1>>}
    /\ channel_draws.low2 = {<<0, 1, 1>>}
    /\ new_errors[0][1][1] = 2

\* A value that has moved from earlier to later toward the bound its decay
\* factor aims at: down to low for a factor below 1, up to high for a
\* factor above 1.
toward(decay_factor, earlier, later, low, high) ==
    IF decay_factor.num < decay_factor.den THEN later <= earlier /\ later >= low
    ELSE IF decay_factor.num > decay_factor.den THEN later >= earlier /\ later <= high
    ELSE later = earlier

C26_SelectionUsesAnnealed ==
    schedule.computed => schedule.selection_epsilon = schedule.annealed_epsilon

\* C21: no learning step of either kind changes a parameter of the target
\* network, whatever networks the optimizer holds; a step that changes a
\* parameter changes one of the policy network.
C21_TargetNetworkFrozen ==
    /\ [][target_network'.params = target_network.params]_vars
    /\ [][(policy_network'.params /= policy_network.params)
            => (step_result'.raised = "none" /\ ~policy_network'.grad.none)]_vars
    /\ [](target_network.grad = None)

C21_Witness ==
    /\ steps = MaxSteps
    /\ step_result.called
    /\ step_result.raised = "none"
    /\ "target" \in learner_args.optimizer
    /\ policy_network.params /= 1
    /\ target_network.params = 2

\* The largest entry of a row.
largest(row) == CHOOSE m \in {row[k] : k \in DOMAIN row} : \A k \in DOMAIN row : row[k] <= m

\* reward + discount_factor * value * (1 - terminal), held between low and
\* high.
bellman(reward, value, terminal, discount_factor, low, high) ==
    LET raw == reward + (IF terminal THEN 0
                         ELSE (discount_factor.num * value) \div discount_factor.den)
    IN  IF raw > high THEN high ELSE IF raw < low THEN low ELSE raw

\* C28: in perform_q_learning_step the target of every sample is reward +
\* discount_factor * (largest target-network score of the next state) *
\* (1 - terminal) clamped to [-200, 200]: the clamped reward for a terminal
\* transition, and never outside [-200, 200].
C28_QTargetClamped ==
    (rl_type = "q" /\ step_result.called /\ step_result.raised = "none") =>
        \A i \in 1..batch_size :
            LET sample == data[1].value[i]
                target == step_result.target_q_values[i]
                best == largest([a \in DOMAIN sample.next_state.scores |->
                            target_network.params * sample.next_state.scores[a]])
            IN  /\ target = bellman(sample.reward, best, sample.terminal,
                                    learner_args.discount_factor, 0 - 200, 200)
                /\ sample.terminal =>
                        target = bellman(sample.reward, 0, TRUE,
                                         learner_args.discount_factor, 0 - 200, 200)
                /\ target >= 0 - 200
                /\ target <= 200

C28_Witness ==
    /\ rl_type = "q"
    /\ step_result.called
    /\ step_result.raised = "none"
    /\ target_network.params = 2
    /\ data[1].value[1].terminal
    /\ data[1].value[1].reward = 0 - 250
    /\ ~data[1].value[2].terminal
    /\ data[1].value[2].reward = 100
    /\ step_result.target_q_values = <<0 - 200, 200>>

\* C29: in perform_value_network_learning_step the target of every sample
\* is optimal_reward + discount_factor * (successor value) *
\* (1 - optimal_terminal) clamped to [-120, 120], the successor value being
\* the target network's value of the optimal successor state, or with
\* reevaluate_all the largest target-network value of the successor states
\* enumerated for the sample's state.
C29_VTargetClamped ==
    (rl_type = "v" /\ step_result.called /\ step_result.raised = "none") =>
        \A i \in 1..batch_size :
            LET sample == data[1].value[i]
                target == step_result.target_q_values[i]
                value == IF learner_args.reevaluate_all
                         THEN largest([k \in DOMAIN sample.state.successors |->
                                target_network.params * sample.state.successors[k]])
                         ELSE target_network.params * sample.optimal_next_state.value
            IN  /\ target = bellman(sample.optimal_reward, value,
                                    sample.optimal_terminal,
                                    learner_args.discount_factor, 0 - 120, 120)
                /\ target >= 0 - 120
                /\ target <= 120

C29_Witness ==
    /\ rl_type = "v"
    /\ step_result.called
    /\ step_result.raised = "none"
    /\ learner_args.reevaluate_all
    /\ target_network.params = 1
    /\ data[1].value[1].state.value = 0 - 300
    /\ data[1].value[1].optimal_next_state.value = 0 - 300
    /\ data[1].value[1].optimal_reward = 100
    /\ ~data[1].value[1].optimal_terminal
    /\ step_result.target_q_values[1] = 100
    /\ step_result.target_q_values[2] = 0 - 120

\* C30: perform_q_learning_step returns the replay indices of its payload
\* as they came, and one priority for every sample of the batch, which is
\* the absolute value of that sample's loss and so not negative.
C30_IndicesAndPriorities ==
    (rl_type = "q" /\ step_result.called /\ step_result.raised = "none") =>
        /\ step_result.indices = data[3]
        /\ Len(step_result.priorities) = batch_size
        /\ \A i \in 1..batch_size :
            /\ step_result.priorities[i] >= 0
            /\ step_result.priorities[i] = step_result.loss[i]
                \/ step_result.priorities[i] = 0 - step_result.loss[i]

C30_Witness ==
    /\ rl_type = "q"
    /\ step_result.called
    /\ step_result.raised = "none"
    /\ data[2] = Some(<<1, 3>>)
    /\ step_result.indices = Some(<<11, 12>>)
    /\ step_result.priorities[1] > 0
    /\ step_result.priorities[2] > step_result.priorities[1]

\* C31: when a transition of the payload has a number of fields other than
\* the one the variant unpacks (5 for q, 9 for v), data_to_batch raises and
\* returns no batch.
C31_FieldCountChecked ==
    (/\ batch_result.called
     /\ ~data[1].none
     /\ \E k \in 1..Len(data[1].value) : data[1].value[k] /= unpacked(rl_type))
        => batch_result.raised /= "none"

\* C32: the list of a publish has num_environments * c pairs, c the
\* configured buffer size; counting from 0, its k-th pair holds the
\* transition environment k div c wrote to slot k mod c and the priority
\* computed from the values of that environment at that slot and at the
\* slot after it.
C32_PairsAlignedByIndex ==
    LET c == size_local_memory_buffer - 1
    IN  published /= << >> =>
            /\ Len(published) = num_environments * c
            /\ \A k \in 0..(Len(published) - 1) :
                /\ published[k + 1][1] = [env |-> k \div c, slot |-> k % c, sent |-> 0]
                /\ published[k + 1][2].of = [env |-> k \div c, slot |-> k % c]
                /\ published[k + 1][2].successor = [env |-> k \div c, slot |-> (k % c) + 1]

C32_Witness ==
    /\ num_environments = 4
    /\ size_local_memory_buffer = 8
    /\ Len(published) = 28
    /\ published[10][1].env = 1
    /\ published[10][1].slot = 2
    /\ published[10][2].of = [env |-> 1, slot |-> 2]

\* C33: at the loop head buffer_idx is within 0..c; a flush leaves
\* buffer_idx at 0, has published every transition of the slots 0..c-1 once
\* and the transition of slot c never; and the transition a write replaces
\* was published exactly once if it was in a slot 0..c-1 and never if it
\* was in slot c.
C33_WindowPublishedOnce ==
    /\ [](a_pc = "loop" => buffer_idx \in 0..(size_local_memory_buffer - 1))
    /\ [][(a_pc = "put" /\ a_pc' = "reset") =>
            /\ buffer_idx' = 0
            /\ \A i \in Envs, slot \in Slots :
                /\ local_buffer_transitions'[i][slot].env = i
                /\ local_buffer_transitions'[i][slot].slot = slot
                /\ local_buffer_transitions'[i][slot].sent =
                    IF slot < size_local_memory_buffer - 1 THEN 1 ELSE 0]_vars
    /\ [][(a_pc = "loop" /\ a_pc' /= "loop") =>
            \A i \in Envs :
                /\ local_buffer_transitions'[i][buffer_idx].sent = 0
                /\ local_buffer_transitions[i][buffer_idx] /= empty =>
                    local_buffer_transitions[i][buffer_idx].sent =
                        IF buffer_idx < size_local_memory_buffer - 1 THEN 1 ELSE 0]_vars

C33_Witness ==
    /\ size_local_memory_buffer = 2
    /\ last_publish /= << >>
    /\ a_pc = "reset"
    /\ buffer_idx = 1
    /\ local_buffer_transitions[0][0] = [env |-> 0, slot |-> 0, sent |-> 0]
    /\ local_buffer_transitions[0][1] = [env |-> 0, slot |-> 1, sent |-> 0]
    /\ published[1][1].slot = 0

\* C34: the next_state a transition records is the state its iteration's
\* step returned, also after the reset that ends the iteration; the state
\* the next iteration records for an environment is that next_state, or
\* the reset state if the environment was reset at the end of the
\* iteration.
C34_StateHandOver ==
    /\ [](\A i \in DOMAIN transitions : transitions[i].next_state = stepped(i))
    /\ [][(a_pc = "loop" /\ a_pc' /= "loop") =>
            \A i \in Envs :
                /\ transitions'[i].next_state = next_states'[i]
                /\ transitions'[i].state = states[i]]_vars
    /\ [][(a_pc = "reset" /\ a_pc' = "loop") =>
            \A i \in Envs :
                states'[i] =
                    IF terminals[i] \/ steps_per_episode[i] > size_action_history
                    THEN reset_state(i)
                    ELSE transitions[i].next_state]_vars

C34_Witness ==
    /\ a_pc = "reset"
    /\ iterations > 1
    /\ transitions[0].state = reset_state(0)
    /\ transitions[0].next_state = stepped(0)
    /\ transitions[1].state = stepped(1)
    /\ next_states[0] = stepped(0)

\* C35: the actor reads the weight queue and writes its model only in an
\* iteration whose buffer is full; in such an iteration the
\* synchronisation has ended when the priorities are computed and the
\* list is put, the model keeps its parameters from then to the end of
\* the iteration, and the environments are reset after the put.
C35_SyncThenPublishThenReset ==
    /\ [](a_pc \in {"qsize", "get"} => buffer_idx >= size_local_memory_buffer)
    /\ [][(learner_qsize' /= learner_qsize \/ model_params' /= model_params) =>
            (a_pc \in {"qsize", "get"} /\ buffer_idx >= size_local_memory_buffer)]_vars
    /\ [][Len(actor_io_queue') > Len(actor_io_queue) =>
            /\ a_pc = "put"
            /\ gets_left = 0
            /\ buffer_idx >= size_local_memory_buffer
            /\ a_pc' = "reset"
            /\ states' = states]_vars
    /\ [][a_pc = "reset" =>
            (a_pc' \in {"reset", "loop"} /\ model_params' = model_params)]_vars
    /\ [][(a_pc = "reset" /\ a_pc' = "loop") =>
            buffer_idx < size_local_memory_buffer]_vars

C35_Witness ==
    /\ a_pc = "loop"
    /\ buffer_idx = 0
    /\ last_publish /= << >>
    /\ taken /= << >>
    /\ model_params = <<1>>
    /\ states[0] = reset_state(0)
    /\ states[1] = stepped(1)

\* The action of the n-th step of the history.
action(n) == history[n].action

\* The number of steps of the history that applied op to qubit (row, col).
applied(row, col, op) ==
    Cardinality({n \in 1..Len(history) :
        action(n) = [row |-> row, col |-> col, add_operator |-> op]})

\* op if it was applied an odd number of times, the identity otherwise.
odd_part(row, col, op) == IF applied(row, col, op) % 2 = 1 THEN op ELSE 0

\* C36: the rule table is closed on {0,1,2,3} and associative; the grid
\* after two steps A, B is the grid the steps B, A give on the same grid;
\* and the grid after any steps is the grid before them with, on every
\* qubit, each operator composed that was applied to it an odd number of
\* times.
C36_ActionsCommute ==
    /\ history = << >> =>
        \A a \in 0..3, b \in 0..3, c \in 0..3 :
            /\ rule_table[a][b] \in 0..3
            /\ rule_table[rule_table[a][b]][c] = rule_table[a][rule_table[b][c]]
    /\ \A n \in 2..Len(history) :
        LET swapped == step_qubits(history[n - 1].qubits, action(n).row,
                                   action(n).col, action(n).add_operator)
        IN  step_qubits(swapped, action(n - 1).row, action(n - 1).col,
                        action(n - 1).add_operator) = after(n).qubits
    /\ history /= << >> =>
        \A l \in Layers(stack_depth), row \in Rows, col \in Rows :
            qubits[l][row][col] =
                rule_table[rule_table[rule_table[history[1].qubits[l][row][col]]
                    [odd_part(row, col, 1)]][odd_part(row, col, 2)]][odd_part(row, col, 3)]

C36_Witness ==
    /\ Len(history) = 2
    /\ action(1) = [row |-> 0, col |-> 0, add_operator |-> 3]
    /\ action(2) = [row |-> 0, col |-> 0, add_operator |-> 2]
    /\ history[1].qubits[0][0][0] = 1
    /\ history[2].qubits[0][0][0] = 2
    /\ qubits[0][0][0] = 0

\* C37: in every state every qubit label is in {0,1,2,3} and every entry
\* of the stored syndromes is 0 or 1; the grid has the shape h x d x d and
\* the syndromes the shape h x (d+1) x (d+1).
C37_LabelsAndShapes ==
    /\ qubits \in [Layers(stack_depth) -> [Rows -> [Rows -> 0..3]]]
    /\ state \in [Layers(stack_depth) -> [SynRows -> [SynRows -> {0, 1}]]]
    /\ next_state \in [Layers(stack_depth) -> [SynRows -> [SynRows -> {0, 1}]]]

C37_Witness ==
    /\ pc = "idle"
    /\ last_call = "step"
    /\ Len(history) = 1
    /\ stack_depth = 2
    /\ history[1].qubits[1][1][1] = 3
    /\ qubits[1][1][1] = 2
    /\ \E i \in SynRows, j \in SynRows : state[1][i][j] = 1

\* The grid with the operator of the n-th step on its qubit in every layer
\* and the identity elsewhere.
alone(n) ==
    step_qubits(zeros(stack_depth, system_size), action(n).row, action(n).col,
                action(n).add_operator)

\* C38: for the grid g before a step and the operator e of the step, the
\* syndrome of the grid after the step is, at every site of every layer,
\* the sum modulo 2 of the syndrome of g and of the syndrome of e alone on
\* the identity grid.
C38_SyndromeLinear ==
    history /= << >> =>
        LET composed == create_syndrome_output_stack(qubits)
            before == create_syndrome_output_stack(history[Len(history)].qubits)
            single == create_syndrome_output_stack(alone(Len(history)))
        IN  \A l \in Layers(stack_depth), i \in SynRows, j \in SynRows :
                composed[l][i][j] = (before[l][i][j] + single[l][i][j]) % 2

C38_Witness ==
    /\ Len(history) = 2
    /\ stack_depth = 2
    /\ action(1) = [row |-> 0, col |-> 1, add_operator |-> 1]
    /\ action(2) = [row |-> 0, col |-> 0, add_operator |-> 3]
    /\ qubits[0][0][0] = 2
    /\ create_syndrome_output_stack(qubits)[0][1][1]
        /= create_syndrome_output_stack(history[2].qubits)[0][1][1]

====
